---- MODULE Spec2Model ----
(***************************************************************************)
(* A model of the page-to-Markdown extension: the extraction history store *)
(* (popup.js, background.js, the options script), the popup's extract      *)
(* click handler, and the background's enrichment, retry loop and          *)
(* delivery.                                                               *)
(*                                                                         *)
(* Conventions.                                                            *)
(*  - A URL is a natural number; a timestamp is the clock reading in       *)
(*    milliseconds (an integer). The code stores a timestamp as            *)
(*    new Date().toISOString() and reads it back with new Date(s): that    *)
(*    round trip is exact to the millisecond, so the comparator of the     *)
(*    sort compares exactly these integers.                                *)
(*  - An async function is cut at its awaits: one action per segment       *)
(*    between two suspension points, because nothing else runs inside a    *)
(*    segment.                                                             *)
(*  - Sequences are 1-indexed; an index of 0 is JavaScript's -1.           *)
(*  - The clock never goes back; two readings may be equal.                *)
(*  - The background's invocations of processAndDownloadWithGemini are     *)
(*    taken one at a time: a request that arrives while one is in progress *)
(*    waits in toBackground.                                               *)
(*  - A handler's exception (a rejected browser call) is a choice between  *)
(*    returning and throwing at the segment that makes the call.           *)
(*  - Left out: the one-second timer of the enrichment branch that only    *)
(*    rewrites the status text while the popup waits (popup.js:594-599).   *)
(*  - SpecLive is the pipeline with the settings and the clock held fixed, *)
(*    for the properties that need fairness.                               *)
(***************************************************************************)
EXTENDS Integers, Sequences, FiniteSets, TLC

(***************************************************************************)
(* Program constants.                                                      *)
(***************************************************************************)
\* popup.js:256, background.js:27, and the literal 100 of keepLast100
maxUrls == 100
\* background.js:367
maxRetries == 8
\* background.js:368, in seconds
baseDelay == 2

(***************************************************************************)
(* Bounds of the model.                                                    *)
(***************************************************************************)
\* how many extract clicks a behaviour of Spec holds
MaxRuns == 2
\* how far the clock advances
MaxTime == 1
\* how many addExtractedUrl calls a behaviour of SpecHistory holds
MaxRecords == 2

(***************************************************************************)
(* Inputs.                                                                 *)
(***************************************************************************)
\* the pages the user extracts in Spec
Urls == {1, 2}
\* what the injected getPageContent gave back
ScriptResults == {"html", "nohtml", "noresult"}
\* the stored API key: empty or set
ApiKeys == {"", "key"}
\* geminiModel as stored: "" while none was ever saved (the popup then sends
\* DefaultModel), or the model chosen on the options page
Models == {"", "gemini-2.5-flash"}
\* model: geminiModel || 'gemini-2.5-pro'
DefaultModel == "gemini-2.5-pro"
\* browser.storage.sync as the popup reads it
Configs == [useGemini : BOOLEAN, geminiApiKey : ApiKeys, geminiModel : Models]
\* how one fetch ends: 2xx, 503, another status, or a network-level exception
Outcomes == {"ok", "503", "other", "neterr"}
\* how reading the 2xx body ends: candidates[0].content.parts[0] present, the
\* structure missing, or response.json() rejecting
Bodies == {"parts", "nostructure", "notjson"}
\* Math.random() * 1000, cut to whole milliseconds: the ends of [0, 1000)
JitterMs == {0, 999}

(***************************************************************************)
(* The extraction history store: pure parts.                               *)
(***************************************************************************)
\* the object literal pushed by addExtractedUrl
NewEntry(url, timestamp) ==
    [url |-> url, firstExtracted |-> timestamp,
     lastExtracted |-> timestamp, count |-> 1]

\* urls.findIndex(item => item.url === url): the first match, 0 when none
findIndex(urls, url) ==
    IF \E i \in 1..Len(urls) : urls[i].url = url
    THEN CHOOSE i \in 1..Len(urls) :
            /\ urls[i].url = url
            /\ \A j \in 1..(i - 1) : urls[j].url # url
    ELSE 0

\* urls.sort((a, b) => new Date(b.lastExtracted) - new Date(a.lastExtracted)):
\* descending by lastExtracted; Array.prototype.sort is stable, so entries
\* with equal lastExtracted keep their order. The place of entry i is one plus
\* the number of entries that come before it.
SortPlace(urls, i) ==
    1 + Cardinality({j \in 1..Len(urls) :
                        \/ urls[j].lastExtracted > urls[i].lastExtracted
                        \/ /\ urls[j].lastExtracted = urls[i].lastExtracted
                           /\ j < i})

\* (place is written as a concatenation so that TLC computes it once, as a
\* tuple, and not again at every use)
sortByLastExtracted(urls) ==
    LET n     == Len(urls)
        place == [i \in 1..n |-> SortPlace(urls, i)] \o <<>>
        at    == [p \in 1..n |-> CHOOSE i \in 1..n : place[i] = p] \o <<>>
    IN  [p \in 1..n |-> urls[at[p]]]

\* urls.splice(n): drop everything from index n on (0-based), keep the first n
splice(urls, n) == SubSeq(urls, 1, n)

\* Truncate with the sort left out: splice alone
Truncate_NoSort(urls, n) ==
    IF Len(urls) > n THEN splice(urls, n) ELSE urls

\* Truncate with the test off by one: urls.length > maxUrls + 1
Truncate_LateTest(urls, n) ==
    IF Len(urls) > n + 1 THEN splice(sortByLastExtracted(urls), n) ELSE urls

\* the if (urls.length > maxUrls) { sort; splice } block
Truncate(urls, n) ==
    IF Len(urls) > n THEN splice(sortByLastExtracted(urls), n) ELSE urls

\* Upsert that writes firstExtracted as well when the url is already stored
Upsert_ResetsFirst(urls, url, timestamp) ==
    LET existingIndex == findIndex(urls, url)
    IN  IF existingIndex # 0
        THEN [urls EXCEPT ![existingIndex] =
                 [@ EXCEPT !.firstExtracted = timestamp,
                           !.lastExtracted = timestamp,
                           !.count = (IF @ = 0 THEN 1 ELSE @) + 1]]
        ELSE Append(urls, NewEntry(url, timestamp))

\* Upsert with the findIndex test lost: always push
Upsert_AlwaysPush(urls, url, timestamp) ==
    Append(urls, NewEntry(url, timestamp))

\* Upsert that bumps lastExtracted and leaves count alone
Upsert_KeepsCount(urls, url, timestamp) ==
    LET existingIndex == findIndex(urls, url)
    IN  IF existingIndex # 0
        THEN [urls EXCEPT ![existingIndex].lastExtracted = timestamp]
        ELSE Append(urls, NewEntry(url, timestamp))

\* the update-or-push block of addExtractedUrl; (count || 1) + 1: a stored
\* count is never 0 or missing here, so count || 1 is count
Upsert(urls, url, timestamp) ==
    LET existingIndex == findIndex(urls, url)
    IN  IF existingIndex # 0
        THEN [urls EXCEPT ![existingIndex] =
                 [@ EXCEPT !.lastExtracted = timestamp,
                           !.count = (IF @ = 0 THEN 1 ELSE @) + 1]]
        ELSE Append(urls, NewEntry(url, timestamp))

\* addExtractedUrl from the list it read to the list it writes
addExtractedUrl(urls, url, timestamp) ==
    Truncate(Upsert(urls, url, timestamp), maxUrls)

(***************************************************************************)
(* State.                                                                  *)
(***************************************************************************)
VARIABLES
    now,            \* the wall clock, in milliseconds
    extractedUrls,  \* browser.storage.local "extractedUrls"
    recorded,       \* history variable: how many addExtractedUrl calls have written
    config,         \* browser.storage.sync: useGemini, geminiApiKey
    popup,          \* the popup page and its extract click handler
    toBackground,   \* processAndDownload requests sent and not yet received
    bg,             \* the background's processAndDownloadWithGemini invocation
    toPopup,        \* processingComplete signals sent and not yet delivered
    clicks,         \* history variable: extract clicks so far
    options         \* the options page's keepLast100 invocation

vars == <<now, extractedUrls, recorded, config, popup, toBackground, bg,
          toPopup, clicks, options>>

\* the parts of the state the history-only specifications leave alone
pipelineVars == <<config, popup, toBackground, bg, toPopup, clicks, options>>

\* is event e in log
Has(log, e) == \E i \in 1..Len(log) : log[i] = e
\* how many times
Count(log, e) == Cardinality({i \in 1..Len(log) : log[i] = e})
\* the first place of e in log, 0 when absent
First(log, e) == IF Has(log, e)
                 THEN CHOOSE i \in 1..Len(log) :
                        log[i] = e /\ \A j \in 1..(i - 1) : log[j] # e
                 ELSE 0

\* no popup page exists
PopupClosed ==
    [pc |-> "closed", disabled |-> FALSE, label |-> "Extract Page as Markdown",
     status |-> <<"", "">>, tab |-> <<>>, url |-> 0, res |-> "", urls |-> <<>>,
     log |-> <<>>]
\* a popup page right after it loaded: the button enabled, no status
PopupFresh == [PopupClosed EXCEPT !.pc = "idle"]

\* the options page with no history button pressed
OptionsIdle == [pc |-> "idle", urls |-> <<>>]

\* the background with no request taken yet
BgIdle ==
    [pc |-> "idle", url |-> 0, apiKey |-> "", model |-> "", attempt |-> 0,
     calls |-> 0,
     waits |-> 0, delay |-> 0, seen |-> {}, last |-> "none", ret |-> "none",
     enrich |-> "none", result |-> "none", urls |-> <<>>, log |-> <<>>,
     text |-> <<>>, artifact |-> <<>>]

(***************************************************************************)
(* The clock.                                                              *)
(***************************************************************************)
Tick ==
    /\ now < MaxTime
    /\ now' = now + 1
    /\ UNCHANGED <<extractedUrls, recorded, pipelineVars>>

(***************************************************************************)
(* The options page: saveOptions writes the settings.                      *)
(***************************************************************************)
saveOptions ==
    /\ \E c \in Configs :
          /\ c # config
          /\ config' = c
    /\ UNCHANGED <<now, extractedUrls, recorded, popup, toBackground, bg,
                   toPopup, clicks, options>>

(***************************************************************************)
(* The popup: opening, closing, and the extract click handler.             *)
(***************************************************************************)
\* the tab as tabs.query returns it
Tabs == [internal : BOOLEAN, id : {"number", "none", "other"}]

\* validateTab without its first test: internal pages pass
validateTab_NoInternalTest(tab) ==
    IF tab.id = "none" THEN "Could not find active tab."
    ELSE IF tab.id # "number" THEN "Invalid tab ID received"
    ELSE ""

\* validateTab: the message of the Error it throws, "" when it returns
validateTab(tab) ==
    IF tab.internal           \* chrome:// or about:
    THEN "Cannot extract content from browser-internal pages."
    ELSE IF tab.id = "none"   \* !tab?.id
    THEN "Could not find active tab."
    ELSE IF tab.id # "number" \* typeof tab.id !== 'number'
    THEN "Invalid tab ID received"
    ELSE ""

\* the message of an exception thrown by the browser or by a library
Thrown == "exception"

\* what the status line shows: <<prefix, text>>
Status(text) == <<"", text>>

\* PopupCatch that shows the message and forgets the button
PopupCatch_StaysDisabled(p, message) ==
    [p EXCEPT !.status = <<"Error: ", message>>, !.pc = "idle",
              !.tab = <<>>, !.url = 0, !.res = "", !.urls = <<>>]

\* the catch block of the click handler, error.message being message
PopupCatch(p, message) ==
    [p EXCEPT !.status = <<"Error: ", message>>, !.disabled = FALSE,
              !.label = "Extract Page as Markdown", !.pc = "idle",
              !.tab = <<>>, !.url = 0, !.res = "", !.urls = <<>>]

PopupOpen ==
    /\ popup.pc = "closed"
    /\ popup' = PopupFresh
    /\ UNCHANGED <<now, extractedUrls, recorded, config, toBackground, bg,
                   toPopup, clicks, options>>

\* the popup page goes away with everything its script was doing
PopupClose ==
    /\ popup.pc # "closed"
    /\ popup' = PopupClosed
    /\ UNCHANGED <<now, extractedUrls, recorded, config, toBackground, bg,
                   toPopup, clicks, options>>

\* the click, up to await chrome.tabs.query; the browser resolves the active
\* tab of the current window
PopupClick ==
    /\ popup.pc = "idle"
    /\ ~popup.disabled
    /\ clicks < MaxRuns
    /\ clicks' = clicks + 1
    /\ \E tab \in Tabs, u \in Urls :
          popup' = [PopupFresh EXCEPT !.disabled = TRUE,
                                      !.label = "Extracting...",
                                      !.pc = "query", !.tab = tab, !.url = u]
    /\ UNCHANGED <<now, extractedUrls, recorded, config, toBackground, bg,
                   toPopup, options>>

\* tabs.query answered: validateTab, executeScript called; the injected
\* getPageContent runs in the page and its result is on its way
PopupQueried ==
    /\ popup.pc = "query"
    /\ \E res \in ScriptResults :
          popup' = IF validateTab(popup.tab) = ""
                   THEN [popup EXCEPT !.pc = "script", !.tab = <<>>,
                                      !.res = res,
                                      !.log = Append(@, "script")]
                   ELSE PopupCatch(popup, validateTab(popup.tab))
    /\ UNCHANGED <<now, extractedUrls, recorded, config, toBackground, bg,
                   toPopup, clicks, options>>

\* PopupExtracted without the html check
PopupExtracted_NoHtmlCheck ==
    /\ popup.pc = "script"
    /\ popup' = [popup EXCEPT !.pc = "config", !.res = "",
                               !.log = Append(@, "converted")]
    /\ UNCHANGED <<now, extractedUrls, recorded, config, toBackground, bg,
                   toPopup, clicks, options>>

\* executeScript answered: the html check, generateFilename, detectCategory,
\* turndown, up to await chrome.storage.sync.get; an exception in any of
\* them goes to the catch block
PopupExtracted ==
    /\ popup.pc = "script"
    /\ \E throws \in BOOLEAN :
          popup' = IF popup.res # "html"
                   THEN PopupCatch(popup,
                            "Could not extract content from the page.")
                   ELSE IF throws THEN PopupCatch(popup, Thrown)
                   ELSE [popup EXCEPT !.pc = "config", !.res = "",
                                      !.log = Append(@, "converted")]
    /\ UNCHANGED <<now, extractedUrls, recorded, config, toBackground, bg,
                   toPopup, clicks, options>>

\* the if (useGemini && geminiApiKey) branch: the request handed to the
\* background and the completion listener registered; the handler is done
\* with the tab
PopupHandoff(p) ==
    [p EXCEPT !.status = Status("Processing with Gemini..."), !.pc = "listening", !.url = 0,
              !.log = Append(@, "handoff")]

\* PopupDirect with the two calls swapped: addExtractedUrl before downloadFile
PopupDirect_RecordFirst(p) ==
    [p EXCEPT !.pc = "recRead", !.log = @ \o <<"record", "download">>]

\* the else branch: createMetadata, downloadFile, then addExtractedUrl is
\* called and runs up to its await of storage.local.get
PopupDirect(p) ==
    [p EXCEPT !.pc = "recRead", !.log = @ \o <<"download", "record">>]

\* the message of the handoff, from the configuration as read
Request(url, c) ==
    [url |-> url, apiKey |-> c.geminiApiKey,
     model |-> IF c.geminiModel = "" THEN DefaultModel ELSE c.geminiModel]

\* PopupConfigured branching on the flag alone: if (useGemini)
PopupConfigured_FlagOnly ==
    /\ popup.pc = "config"
    /\ IF config.useGemini
       THEN /\ popup' = PopupHandoff(popup)
            /\ toBackground' = Append(toBackground, Request(popup.url, config))
       ELSE /\ popup' = PopupDirect(popup)
            /\ UNCHANGED toBackground
    /\ UNCHANGED <<now, extractedUrls, recorded, config, bg, toPopup, clicks, options>>

\* storage.sync.get answered, or rejected (fault "read"): the branch; on the
\* direct branch createMetadata or downloadFile may throw before the
\* download is triggered (fault "deliver")
PopupConfigured ==
    /\ popup.pc = "config"
    /\ \E fault \in {"none", "read", "deliver"} :
          IF fault = "read"
          THEN /\ popup' = PopupCatch(popup, Thrown)
               /\ UNCHANGED toBackground
          ELSE IF config.useGemini /\ config.geminiApiKey # ""
          THEN /\ popup' = PopupHandoff(popup)
               /\ toBackground' = Append(toBackground,
                                         Request(popup.url, config))
          ELSE /\ popup' = IF fault = "deliver" THEN PopupCatch(popup, Thrown)
                                                ELSE PopupDirect(popup)
               /\ UNCHANGED toBackground
    /\ UNCHANGED <<now, extractedUrls, recorded, config, bg, toPopup, clicks, options>>

\* addExtractedUrl: storage.local.get answered, or rejected
PopupRecordRead ==
    /\ popup.pc = "recRead"
    /\ \E throws \in BOOLEAN :
          popup' = IF throws THEN PopupCatch(popup, Thrown)
                   ELSE [popup EXCEPT !.pc = "recWrite", !.urls = extractedUrls]
    /\ UNCHANGED <<now, extractedUrls, recorded, config, toBackground, bg,
                   toPopup, clicks, options>>

\* PopupRecordWrite working on the list as stored now, not as it was read
PopupRecordWrite_Atomic ==
    /\ popup.pc = "recWrite"
    /\ extractedUrls' = addExtractedUrl(extractedUrls, popup.url, now)
    /\ recorded' = recorded + 1
    /\ popup' = [popup EXCEPT !.pc = "recSet", !.urls = <<>>]
    /\ UNCHANGED <<now, config, toBackground, bg, toPopup, clicks, options>>

\* addExtractedUrl: the timestamp, the upsert, the truncation,
\* storage.local.set; a set that is rejected writes nothing
PopupRecordWrite ==
    /\ popup.pc = "recWrite"
    /\ \E throws \in BOOLEAN :
          IF throws
          THEN /\ popup' = PopupCatch(popup, Thrown)
               /\ UNCHANGED <<extractedUrls, recorded>>
          ELSE /\ extractedUrls' = addExtractedUrl(popup.urls, popup.url, now)
               /\ recorded' = recorded + 1
               /\ popup' = [popup EXCEPT !.pc = "recSet", !.urls = <<>>]
    /\ UNCHANGED <<now, config, toBackground, bg, toPopup, clicks, options>>

\* the set answered: setTimeout(..., 500)
PopupRecorded ==
    /\ popup.pc = "recSet"
    /\ popup' = [popup EXCEPT !.pc = "timer", !.log = Append(@, "done")]
    /\ UNCHANGED <<now, extractedUrls, recorded, config, toBackground, bg,
                   toPopup, clicks, options>>

\* the 500 ms timer: the button enabled again; the run is over and the model
\* forgets its page and its log
PopupTimer ==
    /\ popup.pc = "timer"
    /\ popup' = [PopupFresh EXCEPT
                    !.status = Status("File downloaded successfully!")]
    /\ UNCHANGED <<now, extractedUrls, recorded, config, toBackground, bg,
                   toPopup, clicks, options>>

\* the processingComplete listener of the popup
PopupOnComplete ==
    /\ popup.pc = "listening"
    /\ toPopup # <<>>
    /\ popup' = [popup EXCEPT !.pc = "idle", !.disabled = FALSE,
                    !.label = "Extract Page as Markdown",
                    !.status = IF Head(toPopup).success
                               THEN Status("File downloaded successfully!")
                               ELSE Status("Processing failed")]
    /\ toPopup' = Tail(toPopup)
    /\ UNCHANGED <<now, extractedUrls, recorded, config, toBackground, bg,
                   clicks, options>>

\* SignalUnheard without the .catch: the rejection fails the run
SignalUnheard_NotSwallowed ==
    /\ popup.pc # "listening"
    /\ toPopup # <<>>
    /\ toPopup' = Tail(toPopup)
    /\ bg' = [bg EXCEPT !.result = "failed"]
    /\ UNCHANGED <<now, extractedUrls, recorded, config, popup, toBackground,
                   clicks, options>>

\* no listener: sendMessage rejects and the .catch(() => {}) swallows it
SignalUnheard ==
    /\ popup.pc # "listening"
    /\ toPopup # <<>>
    /\ toPopup' = Tail(toPopup)
    /\ UNCHANGED <<now, extractedUrls, recorded, config, popup, toBackground,
                   bg, clicks, options>>

(***************************************************************************)
(* The background: processAndDownloadWithGemini, improveMarkdownWithGemini *)
(* and generateContentWithBackoff.                                         *)
(***************************************************************************)
\* Delay without the exponent: baseDelay * (attempt + 1)
Delay_Linear(attempt, jitter) == baseDelay * (attempt + 1) * 1000 + jitter

\* the wait after a failed attempt, in milliseconds:
\* (baseDelay * Math.pow(2, attempt) + Math.random()) * 1000
Delay(attempt, jitter) == baseDelay * (2 ^ attempt) * 1000 + jitter

\* BgCatch without the notification
BgCatch_NoNotification(b) ==
    [b EXCEPT !.pc = "idle", !.result = "failed", !.url = 0, !.apiKey = "",
              !.model = "", !.urls = <<>>,
              !.log = @ \o <<"signalFailed">>]

\* the catch block of processAndDownloadWithGemini: the failure notification,
\* the processingComplete signal with success false, the rethrow
BgCatch(b) ==
    [b EXCEPT !.pc = "idle", !.result = "failed", !.url = 0, !.apiKey = "",
              !.model = "", !.urls = <<>>,
              !.log = @ \o <<"notifyFailed", "signalFailed">>]

\* EnrichThrows with the failure swallowed before the bookkeeping: the run
\* goes on to addExtractedUrl without a download
EnrichThrows_StillRecords(b) ==
    [b EXCEPT !.pc = "recRead", !.enrich = "failed",
              !.log = @ \o <<"record">>]

\* the catch block of improveMarkdownWithGemini rethrows: enrichment failed
EnrichThrows(b) == BgCatch([b EXCEPT !.enrich = "failed"])

\* await setTimeout(delay * 1000) inside the loop
BackoffWait(b, jitter) ==
    [b EXCEPT !.pc = "wait", !.waits = @ + 1,
              !.delay = Delay(b.attempt, jitter)]

\* generateContentWithBackoff without the last-attempt test of the 503 branch
generateContentWithBackoff_503NoLastTest(b, o, jitter) ==
    LET b1 == [b EXCEPT !.seen = @ \cup {o}]
    IN  CASE o = "ok" -> [b1 EXCEPT !.ret = "ok"]
          [] o = "503" -> BackoffWait(b1, jitter)
          [] o = "other" -> [b1 EXCEPT !.ret = "other"]
          [] o = "neterr" ->
                IF b.attempt = maxRetries - 1
                THEN [b1 EXCEPT !.ret = "throw"]
                ELSE BackoffWait(b1, jitter)

\* generateContentWithBackoff without the last-attempt test of the catch block
generateContentWithBackoff_CatchNoLastTest(b, o, jitter) ==
    LET b1 == [b EXCEPT !.seen = @ \cup {o}]
    IN  CASE o = "ok" -> [b1 EXCEPT !.ret = "ok"]
          [] o = "503" ->
                IF b.attempt = maxRetries - 1
                THEN [b1 EXCEPT !.ret = "503"]
                ELSE BackoffWait(b1, jitter)
          [] o = "other" -> [b1 EXCEPT !.ret = "other"]
          [] o = "neterr" -> BackoffWait(b1, jitter)

\* generateContentWithBackoff retrying every non-2xx status, not 503 alone
generateContentWithBackoff_RetriesAnyStatus(b, o, jitter) ==
    LET b1 == [b EXCEPT !.seen = @ \cup {o}]
    IN  CASE o = "ok" -> [b1 EXCEPT !.ret = "ok"]
          [] o \in {"503", "other"} ->
                IF b.attempt = maxRetries - 1
                THEN [b1 EXCEPT !.ret = o]
                ELSE BackoffWait(b1, jitter)
          [] o = "neterr" ->
                IF b.attempt = maxRetries - 1
                THEN [b1 EXCEPT !.ret = "throw"]
                ELSE BackoffWait(b1, jitter)

\* generateContentWithBackoff without the if (response.ok) return: a 2xx
\* response goes through the 503 branch
generateContentWithBackoff_NoOkReturn(b, o, jitter) ==
    LET b1 == [b EXCEPT !.seen = @ \cup {o}]
    IN  CASE o \in {"ok", "503"} ->
                IF b.attempt = maxRetries - 1
                THEN [b1 EXCEPT !.ret = o]
                ELSE BackoffWait(b1, jitter)
          [] o = "other" -> [b1 EXCEPT !.ret = "other"]
          [] o = "neterr" ->
                IF b.attempt = maxRetries - 1
                THEN [b1 EXCEPT !.ret = "throw"]
                ELSE BackoffWait(b1, jitter)

\* one pass of the loop body of generateContentWithBackoff once the fetch of
\* this attempt has ended with outcome o: return, throw, or wait
generateContentWithBackoff(b, o, jitter) ==
    LET b1 == [b EXCEPT !.seen = @ \cup {o}]
    IN  CASE o = "ok" -> [b1 EXCEPT !.ret = "ok"]
          [] o = "503" ->
                IF b.attempt = maxRetries - 1
                THEN [b1 EXCEPT !.ret = "503"]
                ELSE BackoffWait(b1, jitter)
          [] o = "other" -> [b1 EXCEPT !.ret = "other"]
          [] o = "neterr" ->
                IF b.attempt = maxRetries - 1
                THEN [b1 EXCEPT !.ret = "throw"]
                ELSE BackoffWait(b1, jitter)

\* improveMarkdownWithGemini from the return of generateContentWithBackoff to
\* its next await: response.json() for a 2xx, response.text() otherwise; an
\* exception, or the undefined the loop returns when it runs out, ends in the
\* catch blocks
AfterBackoff(b) ==
    CASE b.pc = "wait" -> b
      [] b.ret = "ok" -> [b EXCEPT !.pc = "json"]
      [] b.ret \in {"503", "other"} -> [b EXCEPT !.pc = "errtext"]
      [] OTHER -> EnrichThrows(b)

\* the response has been consumed: what the model remembers of the call of
\* generateContentWithBackoff that produced it is dropped
EndCall(b) ==
    [b EXCEPT !.attempt = 0, !.calls = 0, !.waits = 0, !.delay = 0,
              !.seen = {}, !.last = "none", !.ret = "none"]

\* Signals with the failure signal of the catch block left out
Signals_OnlySuccess(b0, b1) ==
    IF b1.result = b0.result \/ b1.result # "delivered" THEN <<>>
    ELSE <<[success |-> TRUE, filename |-> b0.url]>>

\* the processingComplete messages the step from b0 to b1 sent: with the
\* filename of the request (one per page, so the page stands for it) on
\* success, with error.message on failure
Signals(b0, b1) ==
    IF b1.result = b0.result THEN <<>>
    ELSE IF b1.result = "delivered"
    THEN <<[success |-> TRUE, filename |-> b0.url]>>
    ELSE <<[success |-> FALSE, error |-> Thrown]>>

\* BgReceive without the test of the API key
BgReceive_NoKeyTest ==
    /\ bg.pc = "idle"
    /\ toBackground # <<>>
    /\ LET req == Head(toBackground)
       IN  bg' = [BgIdle EXCEPT !.url = req.url, !.apiKey = req.apiKey,
                                !.model = req.model, !.pc = "fetch",
                                !.calls = 1]
    /\ toBackground' = Tail(toBackground)
    /\ UNCHANGED <<now, extractedUrls, recorded, config, popup, toPopup,
                   clicks, options>>

\* the onMessage listener takes a processAndDownload request:
\* processAndDownloadWithGemini, improveMarkdownWithGemini up to the first fetch
BgReceive ==
    /\ bg.pc = "idle"
    /\ toBackground # <<>>
    /\ LET req == Head(toBackground)
           b0  == [BgIdle EXCEPT !.url = req.url, !.apiKey = req.apiKey,
                                 !.model = req.model]
       IN  /\ bg' = IF req.apiKey = ""
                     THEN EnrichThrows(b0)
                     ELSE [b0 EXCEPT !.pc = "fetch", !.calls = 1]
           /\ toPopup' = toPopup \o Signals(b0, bg')
    /\ toBackground' = Tail(toBackground)
    /\ UNCHANGED <<now, extractedUrls, recorded, config, popup, clicks, options>>

\* the fetch of this attempt ends
BgFetched ==
    /\ bg.pc = "fetch"
    /\ \E o \in Outcomes, jitter \in JitterMs :
          bg' = AfterBackoff(generateContentWithBackoff(
                                [bg EXCEPT !.last = o], o, jitter))
    /\ toPopup' = toPopup \o Signals(bg, bg')
    /\ UNCHANGED <<now, extractedUrls, recorded, config, popup, toBackground,
                   clicks, options>>

\* the wait ends: attempt++, the loop test, the next fetch
BgRetry ==
    /\ bg.pc = "wait"
    /\ bg' = IF bg.attempt + 1 < maxRetries
             THEN [bg EXCEPT !.pc = "fetch", !.attempt = @ + 1,
                             !.calls = @ + 1, !.last = "none"]
             ELSE AfterBackoff([bg EXCEPT !.pc = "return", !.attempt = @ + 1,
                                          !.ret = "undefined"])
    /\ toPopup' = toPopup \o Signals(bg, bg')
    /\ UNCHANGED <<now, extractedUrls, recorded, config, popup, toBackground,
                   clicks, options>>

\* response.text() of a non-2xx response answered: throw new Error(...)
BgErrorText ==
    /\ bg.pc = "errtext"
    /\ bg' = EnrichThrows(EndCall(bg))
    /\ toPopup' = toPopup \o Signals(bg, bg')
    /\ UNCHANGED <<now, extractedUrls, recorded, config, popup, toBackground,
                   clicks, options>>

\* Deliver that triggers the download twice
Deliver_DownloadsTwice(b) ==
    [b EXCEPT !.pc = "recRead", !.enrich = "ok",
              !.log = @ \o <<"download", "download", "record">>]

\* processAndDownloadWithGemini from the result of improveMarkdownWithGemini:
\* createMetadata, the content fallback, downloads.download, then
\* addExtractedUrl is called and runs up to its await of storage.local.get
Deliver(b) ==
    [b EXCEPT !.pc = "recRead", !.enrich = "ok",
              !.log = @ \o <<"download", "record">>]

\* response.json() answered: the structure check, the parse, the delivery
BgBody ==
    /\ bg.pc = "json"
    /\ \E body \in Bodies :
          bg' = IF body = "parts" THEN Deliver(EndCall(bg))
                                  ELSE EnrichThrows(EndCall(bg))
    /\ toPopup' = toPopup \o Signals(bg, bg')
    /\ UNCHANGED <<now, extractedUrls, recorded, config, popup, toBackground,
                   clicks, options>>

\* addExtractedUrl: storage.local.get answered, or rejected
BgRecordRead ==
    /\ bg.pc = "recRead"
    /\ \E throws \in BOOLEAN :
          bg' = IF throws THEN BgCatch(bg)
                ELSE [bg EXCEPT !.pc = "recWrite", !.urls = extractedUrls]
    /\ toPopup' = toPopup \o Signals(bg, bg')
    /\ UNCHANGED <<now, extractedUrls, recorded, config, popup, toBackground,
                   clicks, options>>

\* addExtractedUrl: the timestamp, the upsert, the truncation,
\* storage.local.set; a set that is rejected writes nothing
BgRecordWrite ==
    /\ bg.pc = "recWrite"
    /\ \E throws \in BOOLEAN :
          IF throws
          THEN /\ bg' = BgCatch(bg)
               /\ UNCHANGED <<extractedUrls, recorded>>
          ELSE /\ extractedUrls' = addExtractedUrl(bg.urls, bg.url, now)
               /\ recorded' = recorded + 1
               /\ bg' = [bg EXCEPT !.pc = "recSet", !.urls = <<>>]
    /\ toPopup' = toPopup \o Signals(bg, bg')
    /\ UNCHANGED <<now, config, popup, toBackground, clicks, options>>

\* the set answered: the success notification and the processingComplete
\* signal with success true
BgRecorded ==
    /\ bg.pc = "recSet"
    /\ bg' = [bg EXCEPT !.pc = "idle", !.result = "delivered", !.url = 0,
                        !.apiKey = "", !.model = "",
                        !.log = @ \o <<"notifyDone", "signalDone">>]
    /\ toPopup' = toPopup \o Signals(bg, bg')
    /\ UNCHANGED <<now, extractedUrls, recorded, config, popup, toBackground,
                   clicks, options>>

(***************************************************************************)
(* Spec: the delivery pipeline. The history starts empty.                  *)
(***************************************************************************)
InitPipeline ==
    /\ config \in Configs
    /\ popup = PopupClosed
    /\ toBackground = <<>>
    /\ bg = BgIdle
    /\ toPopup = <<>>
    /\ clicks = 0
    /\ options = OptionsIdle

Init ==
    /\ now = 0
    /\ extractedUrls = <<>>
    /\ recorded = 0
    /\ InitPipeline

Next ==
    \/ Tick
    \/ saveOptions
    \/ PopupOpen
    \/ PopupClose
    \/ PopupClick
    \/ PopupQueried
    \/ PopupExtracted
    \/ PopupConfigured
    \/ PopupRecordRead
    \/ PopupRecordWrite
    \/ PopupRecorded
    \/ PopupTimer
    \/ PopupOnComplete
    \/ SignalUnheard
    \/ BgReceive
    \/ BgFetched
    \/ BgRetry
    \/ BgErrorText
    \/ BgBody
    \/ BgRecordRead
    \/ BgRecordWrite
    \/ BgRecorded

Spec == Init /\ [][Next]_vars

(***************************************************************************)
(* SpecLive: the pipeline with its scheduling. The popup page, while it is *)
(* open, runs every continuation of its handler that is ready (an awaited  *)
(* browser call answers or rejects, a timer fires, a message arrives); so  *)
(* does the background, whose fetch always ends, with a response or with   *)
(* an exception. The user (clicks, opening and closing the popup) is under *)
(* no obligation. The settings are any and stay as they are, and the clock *)
(* stands still: neither takes part in the progress of a run.              *)
(***************************************************************************)
PopupStep ==
    \/ PopupQueried
    \/ PopupExtracted
    \/ PopupConfigured
    \/ PopupRecordRead
    \/ PopupRecordWrite
    \/ PopupRecorded
    \/ PopupTimer
    \/ PopupOnComplete

BgStep ==
    \/ BgReceive
    \/ BgFetched
    \/ BgRetry
    \/ BgErrorText
    \/ BgBody
    \/ BgRecordRead
    \/ BgRecordWrite
    \/ BgRecorded
    \/ SignalUnheard

NextLive ==
    \/ PopupOpen
    \/ PopupClose
    \/ PopupClick
    \/ PopupStep
    \/ BgStep

SpecLive ==
    /\ Init
    /\ [][NextLive]_vars
    /\ WF_vars(PopupStep)
    /\ WF_vars(BgStep)

(***************************************************************************)
(* The options page: the history buttons.                                  *)
(***************************************************************************)
\* clearAllHistory, the confirm answered with OK
clearAllHistory ==
    /\ extractedUrls' = <<>>
    /\ UNCHANGED <<now, recorded, pipelineVars>>

\* keepLast100 up to its await of storage.local.get, and the get answered
OptionsTrimRead ==
    /\ options.pc = "idle"
    /\ options' = [pc |-> "trim", urls |-> extractedUrls]
    /\ UNCHANGED <<now, extractedUrls, recorded, config, popup, toBackground,
                   bg, toPopup, clicks>>

\* what keepLast100 writes for the list it read; the list itself when it
\* writes nothing
keepLast100(urls, stored) ==
    IF Len(urls) > maxUrls THEN splice(sortByLastExtracted(urls), maxUrls)
    ELSE stored

OptionsTrimWrite ==
    /\ options.pc = "trim"
    /\ extractedUrls' = keepLast100(options.urls, extractedUrls)
    /\ options' = OptionsIdle
    /\ UNCHANGED <<now, recorded, config, popup, toBackground, bg, toPopup,
                   clicks>>

(***************************************************************************)
(* SpecHistory: the history store under its callers. The popup's direct    *)
(* path, the background's delivery and the options page call               *)
(* addExtractedUrl, keepLast100 and clearAllHistory in any interleaving of *)
(* their storage reads and writes. The history starts empty or as          *)
(* sequential records left it: full, or one short of full. What a run does *)
(* after its history write (the popup's timer, the background's            *)
(* notification and signal) does not touch the history and is left out:    *)
(* the next delivery of a context starts from where the write left it.     *)
(***************************************************************************)
\* the history after k sequential records of URLs 1..k, the last at time 0:
\* all in one clock reading (tied), or one clock reading apart
Prefill(k, tied) ==
    [i \in 1..k |-> NewEntry(i, IF tied THEN 0 ELSE i - k)]

\* the URLs recorded: the oldest of a prefilled history, and a new one
HistoryUrls == {1, maxUrls + 1}

InitHistory ==
    /\ now = 0
    /\ extractedUrls \in {<<>>} \cup
          {Prefill(maxUrls - 1, FALSE), Prefill(maxUrls, FALSE),
           Prefill(maxUrls, TRUE)}
    /\ recorded = 0
    /\ InitPipeline
    /\ config = [useGemini |-> FALSE, geminiApiKey |-> "", geminiModel |-> ""]

\* addExtractedUrl calls begun
RecordCalls ==
    recorded + (IF popup.pc \in {"recRead", "recWrite"} THEN 1 ELSE 0)
             + (IF bg.pc \in {"recRead", "recWrite"} THEN 1 ELSE 0)

\* a run of the popup's direct path reaches its delivery of page u
HistoryPopupDelivers ==
    /\ popup.pc \in {"closed", "idle", "recSet"}
    /\ RecordCalls < MaxRecords
    /\ \E u \in HistoryUrls :
          popup' = PopupDirect([PopupFresh EXCEPT !.disabled = TRUE, !.url = u])
    /\ UNCHANGED <<now, extractedUrls, recorded, config, toBackground, bg,
                   toPopup, clicks, options>>

\* a run of the background reaches its delivery of page u
HistoryBgDelivers ==
    /\ bg.pc \in {"idle", "recSet"}
    /\ toPopup = <<>>
    /\ RecordCalls < MaxRecords
    /\ \E u \in HistoryUrls :
          bg' = Deliver([BgIdle EXCEPT !.url = u, !.apiKey = "key",
                                       !.model = DefaultModel])
    /\ UNCHANGED <<now, extractedUrls, recorded, config, popup, toBackground,
                   toPopup, clicks, options>>

NextHistory ==
    \/ Tick
    \/ HistoryPopupDelivers
    \/ PopupRecordRead
    \/ PopupRecordWrite
    \/ HistoryBgDelivers
    \/ BgRecordRead
    \/ BgRecordWrite
    \/ SignalUnheard
    \/ clearAllHistory
    \/ OptionsTrimRead
    \/ OptionsTrimWrite

SpecHistory == InitHistory /\ [][NextHistory]_vars

(***************************************************************************)
(* SpecSeq: record(url) called sequentially with distinct URLs, starting   *)
(* from an empty history. The n-th call records URL n. The first calls     *)
(* (any number of them, possibly all) fall into one clock reading; from    *)
(* then on the clock advances between two calls.                           *)
(***************************************************************************)
InitSeq ==
    /\ now = 0
    /\ extractedUrls = <<>>
    /\ recorded = 0
    /\ InitPipeline
    /\ config = [useGemini |-> FALSE, geminiApiKey |-> "", geminiModel |-> ""]

\* one whole addExtractedUrl call, nothing else running in between
SeqRecord ==
    /\ recorded < maxUrls + 1
    /\ \E adv \in {0, 1} :
          /\ adv = 0 => now = 0
          /\ now' = now + adv
          /\ extractedUrls' = addExtractedUrl(extractedUrls, recorded + 1, now')
    /\ recorded' = recorded + 1
    /\ UNCHANGED pipelineVars

NextSeq == SeqRecord

SpecSeq == InitSeq /\ [][NextSeq]_vars

(***************************************************************************)
(* Strings. A string is a TLA+ string; its characters are its substrings   *)
(* of length one. Of toLowerCase only the ASCII letters are modelled: the  *)
(* keywords, labels and character classes of the code are ASCII. A string  *)
(* of this language cannot hold a backtick: "~" is written for it, and no  *)
(* input of the model holds a tilde of its own.                            *)
(***************************************************************************)
\* s.charAt(i - 1)
charAt(s, i) == SubSeq(s, i, i)

UpperCase == "ABCDEFGHIJKLMNOPQRSTUVWXYZ"
LowerCase == "abcdefghijklmnopqrstuvwxyz"
Digits == "0123456789"

\* the place of character c in string set, 0 when it is not there
PlaceIn(set, c) ==
    IF \E i \in 1..Len(set) : charAt(set, i) = c
    THEN CHOOSE i \in 1..Len(set) : charAt(set, i) = c
    ELSE 0

\* the lower-case letter of each upper-case one
LowerOf ==
    [c \in {charAt(UpperCase, i) : i \in 1..Len(UpperCase)} |->
        charAt(LowerCase, PlaceIn(UpperCase, c))]

\* c.toLowerCase() of one character
lowerChar(c) == IF c \in DOMAIN LowerOf THEN LowerOf[c] ELSE c

\* s.toLowerCase()
RECURSIVE toLowerCase(_)
toLowerCase(s) ==
    IF Len(s) <= 1 THEN lowerChar(s)
    ELSE toLowerCase(SubSeq(s, 1, Len(s) \div 2))
         \o toLowerCase(SubSeq(s, Len(s) \div 2 + 1, Len(s)))

\* s.includes(k)
includes(s, k) ==
    \E i \in 1..(Len(s) - Len(k) + 1) : SubSeq(s, i, i + Len(k) - 1) = k

(***************************************************************************)
(* SpecName: the category and the file name the click handler computes     *)
(* from the page it extracted (popup.js:552-553).                          *)
(***************************************************************************)
\* detectCategory: patterns, in the order Object.entries gives them (the
\* order of the literal, the keys being non-numeric strings)
patterns ==
    <<[category |-> "architecture",
       keywords |-> <<"architecture", "microservice", "design pattern",
                      "system design", "scalability">>],
      [category |-> "testing",
       keywords |-> <<"test", "testing", "tdd", "unit test", "integration",
                      "e2e">>],
      [category |-> "security",
       keywords |-> <<"security", "authentication", "authorization", "oauth",
                      "jwt", "encryption">>],
      [category |-> "performance",
       keywords |-> <<"performance", "optimization", "speed", "cache",
                      "profiling">>],
      [category |-> "database",
       keywords |-> <<"database", "sql", "nosql", "mongodb", "postgres",
                      "redis">>],
      [category |-> "devops",
       keywords |-> <<"devops", "docker", "kubernetes", "ci/cd", "deployment",
                      "aws", "azure">>],
      [category |-> "frontend",
       keywords |-> <<"react", "vue", "angular", "frontend", "css", "ui",
                      "ux">>],
      [category |-> "backend",
       keywords |-> <<"backend", "api", "rest", "graphql", "server", "node",
                      "express">>],
      [category |-> "mobile",
       keywords |-> <<"mobile", "ios", "android", "react native",
                      "flutter">>],
      [category |-> "ai_ml",
       keywords |-> <<"machine learning", "ai", "neural", "tensorflow",
                      "data science">>],
      [category |-> "programming",
       keywords |-> <<"typescript", "javascript", "python", "java", "c#",
                      "rust", "go", "programming">>]>>

\* the two loops of detectCategory from category i, keyword j on
RECURSIVE scanPatterns(_, _, _, _)
scanPatterns(titleLower, urlLower, i, j) ==
    IF i > Len(patterns) THEN "general"
    ELSE IF j > Len(patterns[i].keywords)
    THEN scanPatterns(titleLower, urlLower, i + 1, 1)
    ELSE IF \/ includes(titleLower, patterns[i].keywords[j])
            \/ includes(urlLower, patterns[i].keywords[j])
    THEN patterns[i].category
    ELSE scanPatterns(titleLower, urlLower, i, j + 1)

\* detectCategory without the lower-casing
detectCategory_CaseSensitive(title, url) == scanPatterns(title, url, 1, 1)

\* detectCategory
detectCategory(title, url) ==
    scanPatterns(toLowerCase(title), toLowerCase(url), 1, 1)

\* An instant is a number of minutes since 2026-01-01T00:00Z (seconds play
\* no part in a date); a Date is valid with its instant, or invalid (its
\* getTime() is NaN). The calendar is that of 2025-2027, years of 365 days.
InvalidDate == [valid |-> FALSE, time |-> 0]
\* the days of the months, and the days of the year before each month
MonthDays == <<31, 28, 31, 30, 31, 30, 31, 31, 30, 31, 30, 31>>
RECURSIVE DaysBefore(_)
DaysBefore(m) == IF m = 1 THEN 0 ELSE DaysBefore(m - 1) + MonthDays[m - 1]
\* the number of calendar day y-m-d: 0 is 2026-01-01
DayNumber(y, m, d) == (y - 2026) * 365 + DaysBefore(m) + d - 1

\* the number each digit writes
DigitOf ==
    [c \in {charAt(Digits, i) : i \in 1..Len(Digits)} |->
        PlaceIn(Digits, c) - 1]
\* is every character of s a digit
IsDigits(s) == \A i \in 1..Len(s) : charAt(s, i) \in DOMAIN DigitOf
\* the number a string of digits writes
RECURSIVE parseDigits(_)
parseDigits(s) ==
    IF s = "" THEN 0
    ELSE 10 * parseDigits(SubSeq(s, 1, Len(s) - 1))
         + DigitOf[charAt(s, Len(s))]

\* is s of the form YYYY-MM-DD with a month and a day of the calendar
IsDateForm(s) ==
    /\ Len(s) = 10
    /\ charAt(s, 5) = "-" /\ charAt(s, 8) = "-"
    /\ IsDigits(SubSeq(s, 1, 4)) /\ IsDigits(SubSeq(s, 6, 7))
    /\ IsDigits(SubSeq(s, 9, 10))
    /\ parseDigits(SubSeq(s, 1, 4)) \in 2025..2027
    /\ parseDigits(SubSeq(s, 6, 7)) \in 1..12
    /\ parseDigits(SubSeq(s, 9, 10)) \in
          1..MonthDays[parseDigits(SubSeq(s, 6, 7))]
\* is s of the form THH:MM:00Z
IsTimeForm(s) ==
    /\ Len(s) = 10
    /\ charAt(s, 1) = "T" /\ charAt(s, 4) = ":"
    /\ SubSeq(s, 7, 10) = ":00Z"
    /\ IsDigits(SubSeq(s, 2, 3)) /\ IsDigits(SubSeq(s, 5, 6))
    /\ parseDigits(SubSeq(s, 2, 3)) \in 0..23
    /\ parseDigits(SubSeq(s, 5, 6)) \in 0..59

\* new Date(s) for a string: the date-only ISO form is midnight UTC of that
\* day, the form with a time and Z that instant; any other string of the
\* model is not a date
newDate(s) ==
    LET day == DayNumber(parseDigits(SubSeq(s, 1, 4)),
                         parseDigits(SubSeq(s, 6, 7)),
                         parseDigits(SubSeq(s, 9, 10)))
    IN  IF IsDateForm(s) THEN [valid |-> TRUE, time |-> day * 1440]
        ELSE IF Len(s) = 20 /\ IsDateForm(SubSeq(s, 1, 10))
                /\ IsTimeForm(SubSeq(s, 11, 20))
        THEN [valid |-> TRUE,
              time  |-> day * 1440 + 60 * parseDigits(SubSeq(s, 12, 13))
                        + parseDigits(SubSeq(s, 15, 16))]
        ELSE InvalidDate

\* String(n).padStart(2, '0')
padStart(n) == IF n < 10 THEN "0" \o ToString(n) ELSE ToString(n)

\* getFullYear(), getMonth() + 1 and getDate() of the instant time in a
\* zone whose local time is zone minutes ahead of UTC, put together as
\* YYYY-MM-DD
localDate(time, zone) ==
    LET day == (time + zone) \div 1440
        y   == 2026 + day \div 365
        m   == CHOOSE m \in 1..12 :
                  DayNumber(y, m, 1) <= day
                     /\ day < DayNumber(y, m, 1) + MonthDays[m]
        d   == day - DayNumber(y, m, 1) + 1
    IN  ToString(y) \o "-" \o padStart(m) \o "-" \o padStart(d)

\* the characters /[^a-z0-9_.-]/gi leaves alone
SafeChars == LowerCase \o UpperCase \o Digits \o "_.-"

\* title.replace(/[^a-z0-9_.-]/gi, '_')
RECURSIVE replaceUnsafe(_)
replaceUnsafe(s) ==
    IF s = "" THEN ""
    ELSE IF Len(s) = 1 THEN (IF PlaceIn(SafeChars, s) > 0 THEN s ELSE "_")
    ELSE replaceUnsafe(SubSeq(s, 1, Len(s) \div 2))
         \o replaceUnsafe(SubSeq(s, Len(s) \div 2 + 1, Len(s)))

\* generateFilename, the zone of the browser and the reading of its clock
\* made parameters
generateFilename(pageContent, url, zone, clock) ==
    LET safeTitle == toLowerCase(replaceUnsafe(pageContent.title))
        pubDate   == newDate(pageContent.publicationDate)
        dateStr   == IF pageContent.publicationDate # "" /\ pubDate.valid
                     THEN localDate(pubDate.time, zone)
                     ELSE localDate(clock, zone)
        category  == detectCategory(pageContent.title, url)
    IN  dateStr \o "_" \o category \o "_"
        \o (IF safeTitle = "" THEN "document" ELSE safeTitle) \o ".md"

\* document.title of the pages extracted
Titles ==
    {"Building Microservice Architecture with Docker", "Docker Deployment",
     "Unit TESTING in React", "JWT and OAuth", "Redis Cache",
     "Learning Rust", "Hello World", "Maintain Plants", "Kotlin on Android",
     "", "C++ Tips: Part #1!", "GraphQL Server"}
\* tab.url
PageUrls ==
    {"https://x.test/a", "https://example.com/post",
     "https://example.com/rust", "https://DEV.to/Security",
     "https://blog.io/speed", "https://news.site/sql",
     "https://example.com/vue", "https://example.com/ios",
     "https://example.com/"}
\* pageContent.publicationDate: null or "" when the page names none, else
\* what a meta tag or JSON-LD holds, or an ISO timestamp
PublicationDates ==
    {"", "last Tuesday", "2026-01-05", "2026-01-05T23:30:00Z"}
\* the zone of the browser, in minutes ahead of UTC
Zones == {-300, 0, 120}
\* the clock when the handler runs: 2026-01-10T02:00Z, 2026-01-10T12:00Z
Clocks == {9 * 1440 + 120, 9 * 1440 + 720}

InitName ==
    /\ now = 0
    /\ extractedUrls = <<>>
    /\ recorded = 0
    /\ config = [useGemini |-> FALSE, geminiApiKey |-> "", geminiModel |-> ""]
    /\ toBackground = <<>>
    /\ bg = BgIdle
    /\ toPopup = <<>>
    /\ clicks = 1
    /\ options = OptionsIdle
    /\ \E t \in Titles, d \in PublicationDates, u \in PageUrls,
          z \in Zones, c \in Clocks :
          popup = [pc |-> "script",
                   pageContent |-> [title |-> t, publicationDate |-> d],
                   url |-> u, zone |-> z, clock |-> c,
                   filename |-> "", category |-> ""]

\* the click handler from the script's result: filename and category
NameFile ==
    /\ popup.pc = "script"
    /\ popup' = [popup EXCEPT
                   !.pc = "config",
                   !.filename = generateFilename(popup.pageContent, popup.url,
                                                 popup.zone, popup.clock),
                   !.category = detectCategory(popup.pageContent.title,
                                               popup.url)]
    /\ UNCHANGED <<now, extractedUrls, recorded, config, toBackground, bg,
                   toPopup, clicks, options>>

NextName == NameFile

SpecName == InitName /\ [][NextName]_vars

(***************************************************************************)
(* SpecEnrich: the parse of the remote response and the synthesis of the   *)
(* artifact. A text is the sequence of its lines (the text split at "\n"), *)
(* each line one of Lines; the empty string is the one empty line. Of the  *)
(* metadata fields, technologies stands for all: the others are extracted  *)
(* and rendered by the same code shape.                                    *)
(***************************************************************************)
\* the lines a response is made of: "## Metadata", "Technologies: [react]",
\* the empty line, a line of spaces, "## Content", a line of article text
Lines == {"meta", "tech", "blank", "space", "content", "para"}

\* the longest response, in lines
MaxLines == 5

\* data.candidates[0].content.parts[0].text
Texts == UNION {[1..n -> Lines] : n \in 1..MaxLines}

\* the pre-enrichment Markdown of the request
markdown == <<"md">>

\* s.trim().length === 0, or s is the empty string
IsBlank(s) == \A i \in 1..Len(s) : s[i] \in {"blank", "space"}

\* s.trim(): leading and trailing white space dropped; "" is <<>>
trim(s) ==
    IF IsBlank(s) THEN <<>>
    ELSE LET a == CHOOSE i \in 1..Len(s) :
                    /\ ~IsBlank(<<s[i]>>)
                    /\ \A j \in 1..(i - 1) : IsBlank(<<s[j]>>)
             b == CHOOSE i \in 1..Len(s) :
                    /\ ~IsBlank(<<s[i]>>)
                    /\ \A j \in (i + 1)..Len(s) : IsBlank(<<s[j]>>)
         IN  SubSeq(s, a, b)

\* improvedContent.match(/## Content\n([\s\S]*)/): the capture group, the
\* lines after the first "## Content" line that a newline follows; <<"none">>
\* when there is no match
contentMatch(text) ==
    IF \E i \in 1..(Len(text) - 1) : text[i] = "content"
    THEN LET i == CHOOSE i \in 1..(Len(text) - 1) :
                    /\ text[i] = "content"
                    /\ \A j \in 1..(i - 1) : text[j] # "content"
         IN  SubSeq(text, i + 1, Len(text))
    ELSE <<"none">>

\* the places the metadata regex can match at: "## Metadata" at line i, and
\* "## Content" at line k right after an empty line, k - 2 >= i + 1
MetadataAt(text, i, k) ==
    /\ text[i] = "meta"
    /\ k >= i + 3
    /\ text[k - 1] = "blank"
    /\ text[k] = "content"

\* improvedContent.match(/## Metadata\n([\s\S]*?)\n\n## Content/): the
\* capture group of the leftmost match, lazily the shortest; <<"none">>
\* when there is no match
metadataMatch(text) ==
    LET n      == Len(text)
        starts == {i \in 1..n : \E k \in 1..n : MetadataAt(text, i, k)}
    IN  IF starts = {} THEN <<"none">>
        ELSE LET i == CHOOSE i \in starts : \A j \in starts : i <= j
                 ks == {k \in 1..n : MetadataAt(text, i, k)}
                 k == CHOOSE k \in ks : \A l \in ks : k <= l
             IN  SubSeq(text, i + 1, k - 2)

\* the text of a line: a structural line is named, any other line is its
\* own text
LineText(line) ==
    CASE line = "meta" -> "## Metadata"
      [] line = "tech" -> "Technologies: [react]"
      [] line = "blank" -> ""
      [] line = "space" -> "  "
      [] line = "content" -> "## Content"
      [] line = "para" -> "Some text."
      [] OTHER -> line

\* lines.join("\n") from line i on: the text whose lines these are
RECURSIVE Text(_, _)
Text(lines, i) ==
    IF i > Len(lines) THEN ""
    ELSE LineText(lines[i]) \o (IF i < Len(lines) THEN "\n" ELSE "")
         \o Text(lines, i + 1)

\* the characters \s matches and trim() drops, of those the model uses
Whitespace == " \n\t"
IsWs(c) == c \in {charAt(Whitespace, i) : i \in 1..Len(Whitespace)}

\* the place \s* started at q greedily runs up to
RECURSIVE skipWs(_, _)
skipWs(s, q) ==
    IF q <= Len(s) /\ IsWs(charAt(s, q)) THEN skipWs(s, q + 1) ELSE q

\* The label part of a pattern: head, then one of "_" and \s when sep, then
\* tail, then "s?:?" when optional; matched without regard to case when
\* fold (the i flag).
\* /Technologies:/i and its like, of the primary parse
PrimaryLabel(name) ==
    [head |-> name, sep |-> FALSE, tail |-> "", optional |-> FALSE,
     fold |-> TRUE]
\* /Technologies?:?/i, /Programming[_\s]Languages?:?/i and their like, of the
\* fall-back parse
FallbackLabel(head, sep, tail) ==
    [head |-> head, sep |-> sep, tail |-> tail, optional |-> TRUE,
     fold |-> TRUE]
\* /Summary:/ has no i flag
SummaryLabel ==
    [head |-> "Summary:", sep |-> FALSE, tail |-> "", optional |-> FALSE,
     fold |-> FALSE]

\* the places right after the ways label can match at place p of text t,
\* in the order the regular expression tries them: the optional "s" and ":"
\* taken before left out
LabelEnds(t, p, label) ==
    LET h      == Len(label.head)
        a      == p + h
        b      == IF label.sep THEN a + 1 ELSE a
        c      == b + Len(label.tail)
        okHead == /\ a - 1 <= Len(t)
                  /\ SubSeq(t, p, a - 1) = label.head
        okSep  == \/ ~label.sep
                  \/ /\ a <= Len(t)
                     /\ charAt(t, a) = "_" \/ IsWs(charAt(t, a))
        okTail == /\ c - 1 <= Len(t)
                  /\ SubSeq(t, b, c - 1) = label.tail
        is(k, ch) == k <= Len(t) /\ charAt(t, k) = ch
    IN  IF ~(okHead /\ okSep /\ okTail) THEN <<>>
        ELSE IF ~label.optional THEN <<c>>
        ELSE (IF is(c, "s")
              THEN (IF is(c + 1, ":") THEN <<c + 2>> ELSE <<>>) \o <<c + 1>>
              ELSE <<>>)
             \o (IF is(c, ":") THEN <<c + 1>> ELSE <<>>) \o <<c>>

\* what match() gives: null, or the capture group
NoMatch == [found |-> FALSE, group |-> ""]
Group(str) == [found |-> TRUE, group |-> str]

\* \s*\[([^\]]*)\] from place q: the text up to the first "]"
bracketAt(s, q) ==
    LET w      == skipWs(s, q)
        closes == {i \in (w + 1)..Len(s) : charAt(s, i) = "]"}
    IN  IF w <= Len(s) /\ charAt(s, w) = "[" /\ closes # {}
        THEN Group(SubSeq(s, w + 1,
                          (CHOOSE i \in closes : \A j \in closes : i <= j) - 1))
        ELSE NoMatch

\* \s*([^\n]+) from place q: \s* takes all the white space it can and gives
\* back until a character other than a newline follows; the group runs to
\* the end of that line
bareAt(s, q) ==
    LET w  == skipWs(s, q)
        ks == {k \in q..Len(s) : k <= w /\ charAt(s, k) # "\n"}
    IN  IF ks = {} THEN NoMatch
        ELSE LET k  == CHOOSE k \in ks : \A j \in ks : j <= k
                 es == {e \in k..Len(s) :
                          \A j \in k..e : charAt(s, j) # "\n"}
             IN  Group(SubSeq(s, k, CHOOSE e \in es : \A j \in es : j <= e))

\* \s*(w1|w2|...) from place q, under the i flag: the first of words the
\* text goes on with
RECURSIVE wordAt(_, _, _, _)
wordAt(s, q, words, i) ==
    LET w == skipWs(s, q)
        e == w + Len(words[i]) - 1
    IN  IF i > Len(words) THEN NoMatch
        ELSE IF e <= Len(s) /\ toLowerCase(SubSeq(s, w, e)) = words[i]
        THEN Group(SubSeq(s, w, e))
        ELSE wordAt(s, q, words, i + 1)

\* \s*(.*) from place q under the s flag: the rest of the text
restAt(s, q) == Group(SubSeq(s, skipWs(s, q), Len(s)))

\* the part of a pattern after its label
After(kind, s, q) ==
    CASE kind = "bracket" -> bracketAt(s, q)
      [] kind = "bare" -> bareAt(s, q)
      [] kind = "yesno" -> wordAt(s, q, <<"yes", "no">>, 1)
      [] kind = "level" ->
            wordAt(s, q, <<"beginner", "intermediate", "advanced">>, 1)
      [] kind = "rest" -> restAt(s, q)

\* the first of the label's ways, from the i-th on, that the rest of the
\* pattern matches after
RECURSIVE tryEnds(_, _, _, _)
tryEnds(s, ends, kind, i) ==
    IF i > Len(ends) THEN NoMatch
    ELSE IF After(kind, s, ends[i]).found THEN After(kind, s, ends[i])
    ELSE tryEnds(s, ends, kind, i + 1)

\* s.match(pattern) for the pattern made of label and kind: the capture
\* group of the leftmost match
match(s, label, kind) ==
    LET t  == IF label.fold THEN toLowerCase(s) ELSE s
        h  == IF label.fold THEN toLowerCase(label.head) ELSE label.head
        ps == {p \in 1..Len(s) :
                 /\ p + Len(h) - 1 <= Len(s)
                 /\ SubSeq(t, p, p + Len(h) - 1) = h
                 /\ tryEnds(s, LabelEnds(t, p, label), kind, 1).found}
    IN  IF ps = {} THEN NoMatch
        ELSE tryEnds(s, LabelEnds(t, CHOOSE p \in ps : \A r \in ps : p <= r,
                                  label), kind, 1)

\* str.split(",")
RECURSIVE split(_)
split(str) ==
    LET commas == {i \in 1..Len(str) : charAt(str, i) = ","}
    IN  IF commas = {} THEN <<str>>
        ELSE LET i == CHOOSE i \in commas : \A j \in commas : i <= j
             IN  <<SubSeq(str, 1, i - 1)>>
                 \o split(SubSeq(str, i + 1, Len(str)))

\* str.trim()
trimString(str) ==
    LET inked == {i \in 1..Len(str) : ~IsWs(charAt(str, i))}
    IN  IF inked = {} THEN ""
        ELSE SubSeq(str, CHOOSE i \in inked : \A j \in inked : i <= j,
                         CHOOSE i \in inked : \A j \in inked : j <= i)

\* str.replace(/[\[\]]/g, "")
RECURSIVE dropBrackets(_)
dropBrackets(str) ==
    IF Len(str) <= 1 THEN (IF str \in {"[", "]"} THEN "" ELSE str)
    ELSE dropBrackets(SubSeq(str, 1, Len(str) \div 2))
         \o dropBrackets(SubSeq(str, Len(str) \div 2 + 1, Len(str)))

\* arr.map((x) => x.trim())
RECURSIVE mapTrim(_)
mapTrim(arr) ==
    IF arr = <<>> THEN <<>> ELSE <<trimString(Head(arr))>> \o mapTrim(Tail(arr))

\* the test of the filter: x && x.toLowerCase() !== "none"
Kept(x) == x # "" /\ toLowerCase(x) # "none"

\* cleanItems without the trim
cleanItems_NoTrim(items) == SelectSeq(items, Kept)

\* items.map((x) => x.trim()).filter((x) => x && x.toLowerCase() !== "none")
cleanItems(items) == SelectSeq(mapTrim(items), Kept)

\* the test of a match: match && match[1] && match[1].toLowerCase() !== "none"
Usable(m) == m.found /\ m.group # "" /\ toLowerCase(m.group) # "none"

\* the primary parse of one list field in the metadata text
primaryList(metadataText, name) ==
    LET m == match(metadataText, PrimaryLabel(name), "bracket")
    IN  IF Usable(m) THEN cleanItems(split(m.group)) ELSE <<>>

\* the items a pattern of the fall-back parse gives for its match
fallbackItems(m) ==
    cleanItems(IF includes(m.group, "[") THEN split(dropBrackets(m.group))
               ELSE split(m.group))

\* fallbackList with the bare pattern tried before the bracketed one
fallbackList_BareFirst(fullText, label) ==
    LET m1 == match(fullText, label, "bare")
        m2 == match(fullText, label, "bracket")
    IN  IF Usable(m1) /\ fallbackItems(m1) # <<>> THEN fallbackItems(m1)
        ELSE IF Usable(m2) THEN fallbackItems(m2)
        ELSE <<>>

\* the fall-back parse of one list field in the full text: the loop over
\* the bracketed and the bare pattern, left at the first non-empty list
fallbackList(fullText, label) ==
    LET m1 == match(fullText, label, "bracket")
        m2 == match(fullText, label, "bare")
    IN  IF Usable(m1) /\ fallbackItems(m1) # <<>> THEN fallbackItems(m1)
        ELSE IF Usable(m2) THEN fallbackItems(m2)
        ELSE <<>>

\* the flag and the level as parsed from the metadata text
codeExamplesOf(metadataText) ==
    LET m == match(metadataText, PrimaryLabel("code_examples:"), "yesno")
    IN  m.found /\ toLowerCase(m.group) = "yes"
difficultyLevelOf(metadataText) ==
    LET m == match(metadataText, PrimaryLabel("difficulty_level:"), "level")
    IN  IF m.found THEN toLowerCase(m.group) ELSE "intermediate"
summaryOf(metadataText) ==
    LET m == match(metadataText, SummaryLabel, "rest")
    IN  IF m.found THEN trimString(m.group) ELSE ""

\* improveMarkdownWithGemini from improvedContent to the finalMarkdown it
\* returns
parseImproved(text) ==
    LET meta == metadataMatch(text)
        cont == contentMatch(text)
        m    == Text(meta, 1)
        full == Text(text, 1)
    IN  IF meta # <<"none">>
        THEN [technologies         |-> primaryList(m, "technologies:"),
              programmingLanguages |->
                 primaryList(m, "programming_languages:"),
              tags                 |-> primaryList(m, "tags:"),
              keyConcepts          |-> primaryList(m, "key_concepts:"),
              codeExamples         |-> codeExamplesOf(m),
              difficultyLevel      |-> difficultyLevelOf(m),
              summary              |-> summaryOf(m),
              content              |-> IF cont # <<"none">> THEN trim(cont)
                                       ELSE text]
        ELSE [technologies         |->
                 fallbackList(full, FallbackLabel("technologie", FALSE, "")),
              programmingLanguages |->
                 fallbackList(full,
                              FallbackLabel("programming", TRUE, "language")),
              tags                 |->
                 fallbackList(full, FallbackLabel("tag", FALSE, "")),
              keyConcepts          |->
                 fallbackList(full, FallbackLabel("key", TRUE, "concept")),
              codeExamples         |-> FALSE,
              difficultyLevel      |-> "intermediate",
              summary              |-> "",
              content              |-> IF cont # <<"none">> THEN trim(cont)
                                       ELSE text]

\* the characters escapeYaml tests for: /[:"'|>{}[\]@`!%&*]/
YamlSpecial == ":\"'|>{}[]@~!%&*"

\* has s a character of set
HasCharOf(s, set) == \E i \in 1..Len(s) : PlaceIn(set, charAt(s, i)) > 0

\* str.replace(/"/g, '\\"')
RECURSIVE escapeQuotes(_)
escapeQuotes(s) ==
    IF Len(s) <= 1 THEN (IF s = "\"" THEN "\\\"" ELSE s)
    ELSE escapeQuotes(SubSeq(s, 1, Len(s) \div 2))
         \o escapeQuotes(SubSeq(s, Len(s) \div 2 + 1, Len(s)))

\* escapeYaml without the test for a newline
escapeYaml_NoNewlineTest(str) ==
    IF str = "" THEN ""
    ELSE IF HasCharOf(str, YamlSpecial)
    THEN "\"" \o escapeQuotes(str) \o "\""
    ELSE str

\* createMetadata: escapeYaml
escapeYaml(str) ==
    IF str = "" THEN ""
    ELSE IF HasCharOf(str, YamlSpecial) \/ includes(str, "\n")
    THEN "\"" \o escapeQuotes(str) \o "\""
    ELSE str

\* arr.map(item => escapeYaml(item)).join(', ') from item i on
RECURSIVE joinEscaped(_, _)
joinEscaped(arr, i) ==
    IF i > Len(arr) THEN ""
    ELSE escapeYaml(arr[i])
         \o (IF i < Len(arr) THEN ", " ELSE "") \o joinEscaped(arr, i + 1)

\* createMetadata: formatYamlArray
formatYamlArray(arr) ==
    IF Len(arr) = 0 THEN "[]" ELSE "[" \o joinEscaped(arr, 1) \o "]"

\* summary.replace(/\n/g, '\n  ')
RECURSIVE indentLines(_)
indentLines(s) ==
    IF Len(s) <= 1 THEN (IF s = "\n" THEN "\n  " ELSE s)
    ELSE indentLines(SubSeq(s, 1, Len(s) \div 2))
         \o indentLines(SubSeq(s, Len(s) \div 2 + 1, Len(s)))

\* date.toISOString() of a valid Date: the UTC calendar day and time
toISOString(time) ==
    localDate(time, 0) \o "T" \o padStart((time % 1440) \div 60) \o ":"
    \o padStart(time % 60) \o ":00.000Z"

\* new URL(url).hostname of an absolute URL: the text between "://" and the
\* next "/", lower-cased
hostname(url) ==
    LET a    == CHOOSE i \in 1..Len(url) : SubSeq(url, i, i + 2) = "://"
                   /\ \A j \in 1..(i - 1) : SubSeq(url, j, j + 2) # "://"
        rest == SubSeq(url, a + 3, Len(url))
        ends == {i \in 1..Len(rest) : charAt(rest, i) = "/"}
    IN  toLowerCase(IF ends = {} THEN rest
                    ELSE SubSeq(rest, 1, (CHOOSE i \in ends :
                                            \A j \in ends : i <= j) - 1))

\* no geminiData given: the parameter's default null
NoData == [isNull |-> TRUE]

\* geminiData?.field || fallback, for a field that is a string or a list
FieldOr(geminiData, field, fallback) ==
    IF field \in DOMAIN geminiData /\ Len(geminiData[field]) > 0
    THEN geminiData[field] ELSE fallback

\* createMetadata with the default of difficultyLevel left out
createMetadata_NoLevelDefault(pageContent, url, category, geminiData, clock) ==
    LET codeExamples    == /\ "codeExamples" \in DOMAIN geminiData
                           /\ geminiData.codeExamples
        publicationDate == pageContent.publicationDate
    IN  IF publicationDate # "" /\ ~newDate(publicationDate).valid
        THEN [threw |-> TRUE, lines |-> <<>>]
        ELSE [threw |-> FALSE,
              lines |->
                <<"~~~yaml",
                  "---",
                  "title: " \o escapeYaml(pageContent.title),
                  "source: " \o url,
                  "date_published: "
                     \o (IF publicationDate # ""
                         THEN toISOString(newDate(publicationDate).time)
                         ELSE "unknown"),
                  "date_captured: " \o toISOString(clock),
                  "domain: " \o hostname(url),
                  "author: " \o escapeYaml(IF pageContent.author = ""
                                           THEN "Unknown"
                                           ELSE pageContent.author),
                  "category: " \o category,
                  "technologies: " \o formatYamlArray(
                      FieldOr(geminiData, "technologies", <<>>)),
                  "programming_languages: " \o formatYamlArray(
                      FieldOr(geminiData, "programmingLanguages", <<>>)),
                  "tags: " \o formatYamlArray(
                      FieldOr(geminiData, "tags", <<>>)),
                  "key_concepts: " \o formatYamlArray(
                      FieldOr(geminiData, "keyConcepts", <<>>)),
                  "code_examples: "
                     \o (IF codeExamples THEN "true" ELSE "false"),
                  "difficulty_level: "
                     \o FieldOr(geminiData, "difficultyLevel", "undefined"),
                  "summary: |",
                  "  " \o indentLines(FieldOr(geminiData, "summary", "")),
                  "---",
                  "~~~",
                  "",
                  "# " \o pageContent.title,
                  "">>]

\* createMetadata: the text it returns as the sequence of its lines (the
\* summary, which may hold newlines, as one), or the exception of
\* toISOString() on an invalid Date; the reading of the clock is a parameter
createMetadata(pageContent, url, category, geminiData, clock) ==
    LET codeExamples    == /\ "codeExamples" \in DOMAIN geminiData
                           /\ geminiData.codeExamples
        publicationDate == pageContent.publicationDate
    IN  IF publicationDate # "" /\ ~newDate(publicationDate).valid
        THEN [threw |-> TRUE, lines |-> <<>>]
        ELSE [threw |-> FALSE,
              lines |->
                <<"~~~yaml",
                  "---",
                  "title: " \o escapeYaml(pageContent.title),
                  "source: " \o url,
                  "date_published: "
                     \o (IF publicationDate # ""
                         THEN toISOString(newDate(publicationDate).time)
                         ELSE "unknown"),
                  "date_captured: " \o toISOString(clock),
                  "domain: " \o hostname(url),
                  "author: " \o escapeYaml(IF pageContent.author = ""
                                           THEN "Unknown"
                                           ELSE pageContent.author),
                  "category: " \o category,
                  "technologies: " \o formatYamlArray(
                      FieldOr(geminiData, "technologies", <<>>)),
                  "programming_languages: " \o formatYamlArray(
                      FieldOr(geminiData, "programmingLanguages", <<>>)),
                  "tags: " \o formatYamlArray(
                      FieldOr(geminiData, "tags", <<>>)),
                  "key_concepts: " \o formatYamlArray(
                      FieldOr(geminiData, "keyConcepts", <<>>)),
                  "code_examples: "
                     \o (IF codeExamples THEN "true" ELSE "false"),
                  "difficulty_level: "
                     \o FieldOr(geminiData, "difficultyLevel", "unknown"),
                  "summary: |",
                  "  " \o indentLines(FieldOr(geminiData, "summary", "")),
                  "---",
                  "~~~",
                  "",
                  "# " \o pageContent.title,
                  "">>]

\* the page of the requests of SpecEnrich: no publication date
EnrichPage == [title |-> "Hello World", author |-> "", publicationDate |-> ""]

\* finalContent with the content test reduced to !contentToUse
finalContent_NoTrimTest(improvedMarkdown, md) ==
    [frontMatter |-> createMetadata(EnrichPage, "https://example.com/post",
                                    "general", improvedMarkdown, 0).lines,
     body        |-> IF improvedMarkdown.content \in {<<>>, <<"blank">>}
                     THEN md ELSE improvedMarkdown.content]

\* processAndDownloadWithGemini: the object branch, enrichedMetadata and
\* contentToUse with its fall back to the original markdown
finalContent(improvedMarkdown, md) ==
    [frontMatter |-> createMetadata(EnrichPage, "https://example.com/post",
                                    "general", improvedMarkdown, 0).lines,
     body        |-> IF IsBlank(improvedMarkdown.content)
                     THEN md ELSE improvedMarkdown.content]

InitEnrich ==
    /\ now = 0
    /\ extractedUrls = <<>>
    /\ recorded = 0
    /\ InitPipeline
    /\ config = [useGemini |-> TRUE, geminiApiKey |-> "key", geminiModel |-> ""]

\* a request whose remote call answers 2xx with a well-formed body carrying
\* text is taken up to the await of response.json()
EnrichAnswered ==
    /\ bg.pc = "idle"
    /\ bg.result = "none"
    /\ \E u \in Urls, text \in Texts :
          bg' = [BgIdle EXCEPT !.pc = "json", !.url = u, !.apiKey = "key",
                               !.model = DefaultModel, !.text = text]
    /\ UNCHANGED <<now, extractedUrls, recorded, config, popup, toBackground,
                   toPopup, clicks, options>>

\* response.json() answered: the parse, the synthesis, the download
EnrichDelivers ==
    /\ bg.pc = "json"
    /\ bg.text # <<>>
    /\ bg' = [Deliver(bg) EXCEPT
                !.artifact = finalContent(parseImproved(bg.text), markdown)]
    /\ UNCHANGED <<now, extractedUrls, recorded, config, popup, toBackground,
                   toPopup, clicks, options>>

NextEnrich ==
    \/ EnrichAnswered
    \/ EnrichDelivers

SpecEnrich == InitEnrich /\ [][NextEnrich]_vars

(***************************************************************************)
(* SpecParse: improveMarkdownWithGemini from the text of the response to   *)
(* the object it returns, for responses made of field lines, with and      *)
(* without the "## Metadata" and "## Content" headers around them.         *)
(***************************************************************************)
\* the most field lines of a response
MaxFieldLines == 2

\* the items of the longest tags line and of the longest key concepts line
MaxTags == 11
MaxConcepts == 9

\* "x1, x2, ..., xn"
RECURSIVE ItemsText(_, _)
ItemsText(x, n) ==
    IF n = 0 THEN ""
    ELSE IF n = 1 THEN x \o "1"
    ELSE ItemsText(x, n - 1) \o ", " \o x \o ToString(n)

\* the field lines a response is made of
FieldLines ==
    {"Technologies: [ React , NONE ]",
     "Technologies: docker, none",
     "Programming_Languages: [js, ts]",
     "Programming Languages: python",
     "Tags: [" \o ItemsText("t", MaxTags) \o "]",
     "Tags: api, security",
     "Tags: [ api ,, none ]",
     "Tags: [None]",
     "tags: none",
     "Key_Concepts: [" \o ItemsText("k", MaxConcepts) \o "]",
     "Key Concepts: caching , None",
     "Code_Examples: yes",
     "code_examples:NO",
     "Code_Examples: yesterday",
     "Code_Examples: maybe",
     "Difficulty_Level: Advanced",
     "Difficulty_Level: expert",
     "Difficulty_Level: beginners",
     "Summary: A post."}

\* data.candidates[0].content.parts[0].text: the field lines alone, or as
\* the metadata section of a response with both headers
FieldTexts ==
    LET fields == UNION {[1..n -> FieldLines] : n \in 0..MaxFieldLines}
    IN  fields \cup {<<"meta">> \o f \o <<"blank", "content", "para">> :
                       f \in fields}

InitParse ==
    /\ now = 0
    /\ extractedUrls = <<>>
    /\ recorded = 0
    /\ popup = PopupClosed
    /\ toBackground = <<>>
    /\ toPopup = <<>>
    /\ clicks = 0
    /\ options = OptionsIdle
    /\ config = [useGemini |-> TRUE, geminiApiKey |-> "key", geminiModel |-> ""]
    /\ bg = [pc |-> "json", text |-> <<>>]

\* response.json() answered with the text of the response
ParseAnswered ==
    /\ bg.pc = "json"
    /\ \E text \in FieldTexts : bg' = [pc |-> "parse", text |-> text]
    /\ UNCHANGED <<now, extractedUrls, recorded, config, popup, toBackground,
                   toPopup, clicks, options>>

\* the parse of the text, up to the return of improveMarkdownWithGemini
ParseReturns ==
    /\ bg.pc = "parse"
    /\ bg' = [pc |-> "returned", text |-> bg.text,
              improved |-> parseImproved(bg.text)]
    /\ UNCHANGED <<now, extractedUrls, recorded, config, popup, toBackground,
                   toPopup, clicks, options>>

NextParse ==
    \/ ParseAnswered
    \/ ParseReturns

SpecParse == InitParse /\ [][NextParse]_vars

(***************************************************************************)
(* SpecRender: createMetadata called with any page and any enrichment     *)
(* data, a record that may lack fields (background.js:436-488; the copy in *)
(* popup.js:382-437 is the same text).                                     *)
(***************************************************************************)
\* pageContent.title
RenderTitles ==
    {"Plain Title", "A: B", "Say \"hi\"", "Tom's", "line\nbreak", "",
     "100% & more", "back\\slash", "a\"b: c", "snake_case #1", "~code~"}
\* pageContent.author: "" stands for a missing one
Authors == {"", "Jane Doe", "Ann \"AJ\" Lee"}
\* geminiData: none, a record with one field, a full record, a record whose
\* fields are there and empty
GeminiDatas ==
    {NoData,
     [summary |-> "Short."],
     [technologies |-> <<"React", "Node.js">>,
      programmingLanguages |-> <<"C#">>,
      tags |-> <<"api", "a: b">>,
      keyConcepts |-> <<"caching">>,
      codeExamples |-> TRUE,
      difficultyLevel |-> "advanced",
      summary |-> "One.\nTwo.",
      content |-> <<"para">>],
     [technologies |-> <<>>,
      programmingLanguages |-> <<>>,
      tags |-> <<>>,
      keyConcepts |-> <<>>,
      codeExamples |-> FALSE,
      difficultyLevel |-> "",
      summary |-> "",
      content |-> <<>>]}

InitRender ==
    /\ now = 0
    /\ extractedUrls = <<>>
    /\ recorded = 0
    /\ config = [useGemini |-> TRUE, geminiApiKey |-> "key", geminiModel |-> ""]
    /\ popup = PopupClosed
    /\ toBackground = <<>>
    /\ toPopup = <<>>
    /\ clicks = 1
    /\ options = OptionsIdle
    /\ \E t \in RenderTitles, a \in Authors, d \in PublicationDates,
          u \in {"https://example.com/post", "https://DEV.to/Security"},
          g \in GeminiDatas :
          bg = [pc |-> "render",
                pageContent |-> [title |-> t, author |-> a,
                                 publicationDate |-> d],
                url |-> u, category |-> detectCategory(t, u),
                geminiData |-> g, clock |-> 9 * 1440 + 720,
                frontMatter |-> <<>>]

\* the call of createMetadata: it returns the front-matter or throws
Render ==
    /\ bg.pc = "render"
    /\ LET r == createMetadata(bg.pageContent, bg.url, bg.category,
                               bg.geminiData, bg.clock)
       IN  bg' = [bg EXCEPT !.pc = IF r.threw THEN "threw" ELSE "rendered",
                            !.frontMatter = r.lines]
    /\ UNCHANGED <<now, extractedUrls, recorded, config, popup, toBackground,
                   toPopup, clicks, options>>

NextRender == Render

SpecRender == InitRender /\ [][NextRender]_vars

(***************************************************************************)
(* SpecCall: the background's listener takes one processAndDownload        *)
(* message from any sender, so with any API key, the empty one included    *)
(* (the popup itself never sends one, see PopupConfigured). No popup is    *)
(* open.                                                                   *)
(***************************************************************************)
InitCall ==
    /\ now = 0
    /\ extractedUrls = <<>>
    /\ recorded = 0
    /\ config = [useGemini |-> TRUE, geminiApiKey |-> "", geminiModel |-> ""]
    /\ popup = PopupClosed
    /\ bg = BgIdle
    /\ toPopup = <<>>
    /\ clicks = 0
    /\ options = OptionsIdle
    /\ \E u \in Urls, k \in ApiKeys, m \in Models \cup {DefaultModel} :
          toBackground = <<[url |-> u, apiKey |-> k, model |-> m]>>

NextCall == Tick \/ BgStep

SpecCall == InitCall /\ [][NextCall]_vars

(***************************************************************************)
(* SpecImages: the image loop of getPageContent (popup.js:107-161), run in *)
(* the page. The loop is cut at its await: one step per img element. What  *)
(* happens to an element (too small; loaded and read back; the load fails; *)
(* toDataURL throws on a cross-origin image; an exception in the           *)
(* synchronous part of the try block) is fixed by the page. Left out: an   *)
(* exception of drawImage inside the onload handler, which would leave the *)
(* promise pending.                                                        *)
(***************************************************************************)
\* the most img elements of the content region
MaxImgs == 7

\* what an img element of the page is
ImgKinds == {"small", "good", "loaderr", "cors", "throws"}

\* contentElement.querySelectorAll('img'), in document order
ImgLists == UNION {[1..n -> ImgKinds] : n \in 0..MaxImgs}

\* the body of the loop for a large enough element, a failure counted
\* against imageCount like a success
sampleImage_CountsAttempts(p, kind) ==
    IF kind = "throws" THEN [p EXCEPT !.i = @ + 1]
    ELSE [p EXCEPT !.i = @ + 1,
                   !.loads[p.i] = @ + 1,
                   !.imageCount = @ + 1,
                   !.images = IF kind = "good" THEN Append(@, p.i) ELSE @]

\* the body of the loop for a large enough element: the try block with its
\* await of imageDataPromise, and the catch. An image is named by its place
\* in the document.
sampleImage(p, kind) ==
    IF kind = "throws" THEN [p EXCEPT !.i = @ + 1]
    ELSE IF kind = "good"
    THEN [p EXCEPT !.i = @ + 1,
                   !.loads[p.i] = @ + 1,
                   !.imageCount = @ + 1,
                   !.images = Append(@, p.i)]
    ELSE [p EXCEPT !.i = @ + 1, !.loads[p.i] = @ + 1]

InitImages ==
    /\ now = 0
    /\ extractedUrls = <<>>
    /\ recorded = 0
    /\ config = [useGemini |-> FALSE, geminiApiKey |-> "", geminiModel |-> ""]
    /\ toBackground = <<>>
    /\ toPopup = <<>>
    /\ bg = BgIdle
    /\ clicks = 1
    /\ options = OptionsIdle
    /\ \E imgs \in ImgLists :
          popup = [pc |-> "images", imgElements |-> imgs, i |-> 1,
                   images |-> <<>>, imageCount |-> 0,
                   loads |-> [k \in 1..Len(imgs) |-> 0]]

\* one turn of the for loop
ImageStep ==
    /\ popup.pc = "images"
    /\ popup.i <= Len(popup.imgElements)
    /\ popup.imageCount < 5
    /\ popup' = IF popup.imgElements[popup.i] = "small"
                THEN [popup EXCEPT !.i = @ + 1]
                ELSE sampleImage(popup, popup.imgElements[popup.i])
    /\ UNCHANGED <<now, extractedUrls, recorded, config, toBackground, bg,
                   toPopup, clicks, options>>

\* the loop is left, by the break or at the end of the list, and
\* getPageContent returns
ImagesReturn ==
    /\ popup.pc = "images"
    /\ popup.i > Len(popup.imgElements) \/ popup.imageCount >= 5
    /\ popup' = [popup EXCEPT !.pc = "returned"]
    /\ UNCHANGED <<now, extractedUrls, recorded, config, toBackground, bg,
                   toPopup, clicks, options>>

NextImages ==
    \/ ImageStep
    \/ ImagesReturn

SpecImages == InitImages /\ [][NextImages]_vars

(***************************************************************************)
(* SpecDate: extractPublicationDate of getPageContent (popup.js:19-83) on  *)
(* a page. A page is what the selectors of the function find in it: the    *)
(* content of the eight meta selectors in their order, the JSON-LD         *)
(* scripts, what the eleven element selectors give in their order, and the *)
(* path of the URL. "" is a missing or empty value, and is what stands for *)
(* the null the function returns.                                          *)
(***************************************************************************)
\* the most JSON-LD scripts of a page
MaxScripts == 2

\* a chain of n values of which those at the places of filled are as value
\* gives them
Chain(n, filled, value) == [k \in 1..n |-> IF k \in filled THEN value[k] ELSE ""]

\* the contents of the eight meta selectors: those of
\* article:published_time and of name="date" present or not
MetaChains ==
    {Chain(8, filled, [k \in 1..8 |-> "meta" \o ToString(k)]) :
       filled \in SUBSET {1, 5}}

\* what the eleven element selectors give: those of time[datetime] and of
\* the text of [itemprop="datePublished"], each missing, a date or another
\* text
ElementChains ==
    {[k \in 1..11 |-> IF k \in {1, 4} THEN value[k] ELSE ""] :
       value \in [{1, 4} -> {"", "2026-01-06T23:30:00Z", "last Tuesday"}]}

\* an item of @graph
Item(datePublished, dateCreated) ==
    [isNull |-> FALSE, datePublished |-> datePublished,
     dateCreated |-> dateCreated]
NullItem == [isNull |-> TRUE, datePublished |-> "", dateCreated |-> ""]

\* the text of a JSON-LD script as JSON.parse takes it: not JSON, the value
\* null, or an object with its datePublished, dateCreated and @graph (no
\* @graph, a list of items, or a value that cannot be iterated)
Script(kind, datePublished, dateCreated, graphKind, graph) ==
    [kind |-> kind, datePublished |-> datePublished,
     dateCreated |-> dateCreated, graphKind |-> graphKind, graph |-> graph]

Scripts ==
    {Script("invalid", "", "", "none", <<>>),
     Script("null", "", "", "none", <<>>),
     Script("object", "", "", "none", <<>>),
     Script("object", "published", "created", "none", <<>>),
     Script("object", "", "created", "list", <<Item("graphPublished", "")>>),
     Script("object", "", "", "list",
            <<Item("", "graphCreated"), Item("graphPublished", "")>>),
     Script("object", "", "", "list", <<NullItem, Item("graphPublished", "")>>),
     Script("object", "", "", "list", <<Item("", "")>>),
     Script("object", "", "", "notIterable", <<>>)}

\* document.querySelectorAll('script[type="application/ld+json"]')
ScriptLists == UNION {[1..n -> Scripts] : n \in 0..MaxScripts}

\* window.location.pathname
Paths == {"/2026/01/05/post", "/blog/2026-1-5", "/v/20260105/x"}

\* a || b || ... over a chain: the first value that is not empty
RECURSIVE firstTruthy(_, _)
firstTruthy(chain, k) ==
    IF k > Len(chain) THEN ""
    ELSE IF chain[k] # "" THEN chain[k]
    ELSE firstTruthy(chain, k + 1)

\* the loop over data['@graph'] from item k on: the value returned, "" when
\* the loop ends or an item throws
RECURSIVE graphDate(_, _)
graphDate(graph, k) ==
    IF k > Len(graph) THEN ""
    ELSE IF graph[k].isNull THEN ""
    ELSE IF graph[k].datePublished # "" THEN graph[k].datePublished
    ELSE IF graph[k].dateCreated # "" THEN graph[k].dateCreated
    ELSE graphDate(graph, k + 1)

\* the try block of one script: the value returned, "" when it returns
\* nothing or throws into the empty catch
scriptDate(script) ==
    IF script.kind # "object" THEN ""
    ELSE IF script.datePublished # "" THEN script.datePublished
    ELSE IF script.dateCreated # "" THEN script.dateCreated
    ELSE IF script.graphKind = "list" THEN graphDate(script.graph, 1)
    ELSE ""

\* strategy 2: the loop over the scripts
RECURSIVE jsonLdDate(_, _)
jsonLdDate(scripts, k) ==
    IF k > Len(scripts) THEN ""
    ELSE IF scriptDate(scripts[k]) # "" THEN scriptDate(scripts[k])
    ELSE jsonLdDate(scripts, k + 1)

\* pathname.match(/(\d{4})[-\/](\d{1,2})[-\/](\d{1,2})/): the leftmost
\* match, each \d{1,2} taking two digits when it can
urlDateMatch(path) ==
    LET sep(k)  == k <= Len(path) /\ charAt(path, k) \in {"-", "/"}
        dig(a, b) == a >= 1 /\ b <= Len(path) /\ IsDigits(SubSeq(path, a, b))
        ok(p, m, d) ==
            /\ dig(p, p + 3) /\ sep(p + 4)
            /\ dig(p + 5, p + 4 + m) /\ sep(p + 5 + m)
            /\ dig(p + 6 + m, p + 5 + m + d)
        ps == {p \in 1..Len(path) : \E m, d \in {1, 2} : ok(p, m, d)}
    IN  IF ps = {} THEN [found |-> FALSE, year |-> 0, month |-> 0, day |-> 0]
        ELSE LET p == CHOOSE p \in ps : \A q \in ps : p <= q
                 m == IF \E d \in {1, 2} : ok(p, 2, d) THEN 2 ELSE 1
                 d == IF ok(p, m, 2) THEN 2 ELSE 1
             IN  [found |-> TRUE,
                  year  |-> parseDigits(SubSeq(path, p, p + 3)),
                  month |-> parseDigits(SubSeq(path, p + 5, p + 4 + m)),
                  day   |-> parseDigits(SubSeq(path, p + 6 + m,
                                               p + 5 + m + d))]

\* strategy 4: new Date(year, month - 1, day).toISOString(), the Date being
\* midnight of that day in the zone of the browser
urlDate(path, zone) ==
    LET m == urlDateMatch(path)
    IN  IF m.found
        THEN toISOString(DayNumber(m.year, m.month, m.day) * 1440 - zone)
        ELSE ""

\* strategy 3: the first value of the chain, when it parses as a date
elementDate(elements) ==
    LET dateElement == firstTruthy(elements, 1)
    IN  IF dateElement # "" /\ newDate(dateElement).valid
        THEN toISOString(newDate(dateElement).time)
        ELSE ""

\* extractPublicationDate with strategy 3 returning when its text is there
\* and is not a date
extractPublicationDate_ElementEnds(page, zone) ==
    IF firstTruthy(page.metas, 1) # "" THEN firstTruthy(page.metas, 1)
    ELSE IF jsonLdDate(page.scripts, 1) # "" THEN jsonLdDate(page.scripts, 1)
    ELSE IF firstTruthy(page.elements, 1) # "" THEN elementDate(page.elements)
    ELSE urlDate(page.path, zone)

\* extractPublicationDate
extractPublicationDate(page, zone) ==
    IF firstTruthy(page.metas, 1) # "" THEN firstTruthy(page.metas, 1)
    ELSE IF jsonLdDate(page.scripts, 1) # "" THEN jsonLdDate(page.scripts, 1)
    ELSE IF elementDate(page.elements) # "" THEN elementDate(page.elements)
    ELSE urlDate(page.path, zone)

InitDate ==
    /\ now = 0
    /\ extractedUrls = <<>>
    /\ recorded = 0
    /\ config = [useGemini |-> FALSE, geminiApiKey |-> "", geminiModel |-> ""]
    /\ toBackground = <<>>
    /\ toPopup = <<>>
    /\ bg = BgIdle
    /\ clicks = 1
    /\ options = OptionsIdle
    /\ \E metas \in MetaChains, scripts \in ScriptLists,
          elements \in ElementChains, path \in Paths, zone \in Zones :
          popup = [pc |-> "script",
                   page |-> [metas |-> metas, scripts |-> scripts,
                             elements |-> elements, path |-> path],
                   zone |-> zone, publicationDate |-> ""]

\* getPageContent calls extractPublicationDate
ExtractDate ==
    /\ popup.pc = "script"
    /\ popup' = [popup EXCEPT
                   !.pc = "extracted",
                   !.publicationDate =
                      extractPublicationDate(popup.page, popup.zone)]
    /\ UNCHANGED <<now, extractedUrls, recorded, config, toBackground, bg,
                   toPopup, clicks, options>>

NextDate == ExtractDate

SpecDate == InitDate /\ [][NextDate]_vars

(***************************************************************************)
(* SpecImprove: the improveWithGemini branch of the onMessage listener     *)
(* (background.js:38-46). The request is answered through sendResponse by  *)
(* the then or the catch of the promise improveMarkdownWithGemini returns. *)
(* The invocation shares nothing with other invocations of the background, *)
(* so one request is followed; bg is that invocation and toPopup holds the *)
(* responses sent to the requester. Every fetch and every body read ends,  *)
(* and the background is not shut down while the invocation runs.          *)
(***************************************************************************)
\* the improveWithGemini message for the settings c
ImproveRequest(c) ==
    [action |-> "improveWithGemini", apiKey |-> c.geminiApiKey,
     model  |-> IF c.geminiModel = "" THEN DefaultModel ELSE c.geminiModel]

\* the texts of the 2xx responses of SpecImprove
ImproveTexts ==
    {<<"para">>, <<"meta", "tech", "blank", "content", "para">>}

\* improveMarkdownWithGemini rejects: the catch block rethrows
ImproveThrows(b) ==
    [b EXCEPT !.pc = "idle", !.enrich = "failed", !.result = "rejected"]

\* improveMarkdownWithGemini returns { improvedMarkdown: finalMarkdown }: the
\* value the promise is fulfilled with is kept in artifact
ImproveReturns(b, text) ==
    [b EXCEPT !.pc = "idle", !.enrich = "ok", !.result = "fulfilled",
              !.text = text, !.artifact = parseImproved(text)]

\* improveMarkdownWithGemini from the return of generateContentWithBackoff
\* to its next await, or to its catch block
ImproveAfter(b) ==
    CASE b.pc = "wait" -> b
      [] b.ret = "ok" -> [b EXCEPT !.pc = "json"]
      [] b.ret \in {"503", "other"} -> [b EXCEPT !.pc = "errtext"]
      [] OTHER -> ImproveThrows(b)

\* the listener with .then(sendResponse) alone, the catch left out
Responses_NoCatch(b0, b1) ==
    IF b1.result = b0.result \/ b1.result # "fulfilled" THEN <<>>
    ELSE <<[improvedMarkdown |-> b1.artifact]>>

\* what the listener sends when the promise settles in the step from b0 to
\* b1: .then(sendResponse) passes the value on,
\* .catch((error) => sendResponse({ error: error.message })) the message
Responses(b0, b1) ==
    IF b1.result = b0.result THEN <<>>
    ELSE IF b1.result = "fulfilled"
    THEN <<[improvedMarkdown |-> b1.artifact]>>
    ELSE <<[error |-> Thrown]>>

InitImprove ==
    /\ now = 0
    /\ extractedUrls = <<>>
    /\ recorded = 0
    /\ config \in Configs
    /\ popup = PopupClosed
    /\ toBackground = <<ImproveRequest(config)>>
    /\ bg = BgIdle
    /\ toPopup = <<>>
    /\ clicks = 0
    /\ options = OptionsIdle

\* the listener takes the request: improveMarkdownWithGemini up to its first
\* fetch, or its throw when no key came with the request
ImproveReceive ==
    /\ bg.pc = "idle"
    /\ toBackground # <<>>
    /\ LET req == Head(toBackground)
           b0  == [BgIdle EXCEPT !.apiKey = req.apiKey, !.model = req.model]
       IN  /\ bg' = IF req.apiKey = ""
                     THEN ImproveThrows(b0)
                     ELSE [b0 EXCEPT !.pc = "fetch", !.calls = 1]
           /\ toPopup' = toPopup \o Responses(b0, bg')
    /\ toBackground' = Tail(toBackground)
    /\ UNCHANGED <<now, extractedUrls, recorded, config, popup, clicks, options>>

\* the fetch of this attempt ends
ImproveFetched ==
    /\ bg.pc = "fetch"
    /\ \E o \in Outcomes, jitter \in JitterMs :
          bg' = ImproveAfter(generateContentWithBackoff(
                                [bg EXCEPT !.last = o], o, jitter))
    /\ toPopup' = toPopup \o Responses(bg, bg')
    /\ UNCHANGED <<now, extractedUrls, recorded, config, popup, toBackground,
                   clicks, options>>

\* the wait ends: attempt++, the loop test, the next fetch
ImproveRetry ==
    /\ bg.pc = "wait"
    /\ bg' = IF bg.attempt + 1 < maxRetries
             THEN [bg EXCEPT !.pc = "fetch", !.attempt = @ + 1,
                             !.calls = @ + 1, !.last = "none"]
             ELSE ImproveAfter([bg EXCEPT !.pc = "return", !.attempt = @ + 1,
                                          !.ret = "undefined"])
    /\ toPopup' = toPopup \o Responses(bg, bg')
    /\ UNCHANGED <<now, extractedUrls, recorded, config, popup, toBackground,
                   clicks, options>>

\* response.text() of a non-2xx response answered: throw new Error(...)
ImproveErrorText ==
    /\ bg.pc = "errtext"
    /\ bg' = ImproveThrows(EndCall(bg))
    /\ toPopup' = toPopup \o Responses(bg, bg')
    /\ UNCHANGED <<now, extractedUrls, recorded, config, popup, toBackground,
                   clicks, options>>

\* response.json() answered: the structure check, the parse, the return
ImproveBody ==
    /\ bg.pc = "json"
    /\ \E body \in Bodies, text \in ImproveTexts :
          bg' = IF body = "parts" THEN ImproveReturns(EndCall(bg), text)
                                  ELSE ImproveThrows(EndCall(bg))
    /\ toPopup' = toPopup \o Responses(bg, bg')
    /\ UNCHANGED <<now, extractedUrls, recorded, config, popup, toBackground,
                   clicks, options>>

NextImprove ==
    \/ ImproveReceive
    \/ ImproveFetched
    \/ ImproveRetry
    \/ ImproveErrorText
    \/ ImproveBody

SpecImprove == InitImprove /\ [][NextImprove]_vars /\ WF_vars(NextImprove)

(***************************************************************************)
(* SpecStore: the operations of the history store called one after the     *)
(* other, each run to its end before the next starts: addExtractedUrl,     *)
(* keepLastNUrls, clearExtractedUrls and isUrlExtracted of popup.js. The   *)
(* history starts empty. popup remembers the last operation: what it was *)
(* called with, the history it found, and what it returned.                *)
(***************************************************************************)
\* how many addExtractedUrl calls a behaviour of SpecStore holds
MaxStoreRecords == 4

\* the pages recorded and asked for
StoreUrls == {1, 2, 3}

\* the n keepLastNUrls is called with, its default included
TrimSizes == {0, 1, 2, maxUrls}

\* keepLastNUrls without the sort
keepLastNUrls_NoSort(urls, n) ==
    IF Len(urls) > n THEN splice(urls, n) ELSE urls

\* keepLastNUrls from the list it read to the list stored when it returns
keepLastNUrls(urls, n) ==
    IF Len(urls) > n THEN splice(sortByLastExtracted(urls), n) ELSE urls

\* isUrlExtracted: urls.some(item => item.url === url)
isUrlExtracted(urls, url) == \E i \in 1..Len(urls) : urls[i].url = url

\* the last operation of the store
LastOp(op, url, n, before, result) ==
    [pc |-> "idle", op |-> op, url |-> url, n |-> n, before |-> before,
     result |-> result]

InitStore ==
    /\ now = 0
    /\ extractedUrls = <<>>
    /\ recorded = 0
    /\ config = [useGemini |-> FALSE, geminiApiKey |-> "", geminiModel |-> ""]
    /\ toBackground = <<>>
    /\ bg = BgIdle
    /\ toPopup = <<>>
    /\ clicks = 0
    /\ options = OptionsIdle
    /\ popup = LastOp("none", 0, 0, <<>>, FALSE)

\* the clock advances between two operations
StoreTick ==
    /\ now < MaxTime + 1
    /\ now' = now + 1
    /\ UNCHANGED <<extractedUrls, recorded, popup, config, toBackground, bg,
                   toPopup, clicks, options>>

\* addExtractedUrl(url)
StoreRecord ==
    /\ recorded < MaxStoreRecords
    /\ \E u \in StoreUrls :
          /\ extractedUrls' = addExtractedUrl(extractedUrls, u, now)
          /\ popup' = LastOp("record", u, 0, extractedUrls, FALSE)
    /\ recorded' = recorded + 1
    /\ UNCHANGED <<now, config, toBackground, bg, toPopup, clicks, options>>

\* keepLastNUrls(n)
StoreTrim ==
    /\ \E n \in TrimSizes :
          /\ extractedUrls' = keepLastNUrls(extractedUrls, n)
          /\ popup' = LastOp("trim", 0, n, extractedUrls, FALSE)
    /\ UNCHANGED <<now, recorded, config, toBackground, bg, toPopup, clicks,
                   options>>

\* clearExtractedUrls()
StoreClear ==
    /\ extractedUrls' = <<>>
    /\ popup' = LastOp("clear", 0, 0, extractedUrls, FALSE)
    /\ UNCHANGED <<now, recorded, config, toBackground, bg, toPopup, clicks,
                   options>>

\* isUrlExtracted(url)
StoreContains ==
    /\ \E u \in StoreUrls :
          popup' = LastOp("contains", u, 0, extractedUrls,
                            isUrlExtracted(extractedUrls, u))
    /\ UNCHANGED <<now, extractedUrls, recorded, config, toBackground, bg,
                   toPopup, clicks, options>>

NextStore ==
    \/ StoreTick
    \/ StoreRecord
    \/ StoreTrim
    \/ StoreClear
    \/ StoreContains

SpecStore == InitStore /\ [][NextStore]_vars

(***************************************************************************)
(* The claims.                                                             *)
(***************************************************************************)
\* a background invocation has ended
BgEnded == bg.pc = "idle" /\ bg.result # "none"

\* C1 (as claimed): whenever enrichment fails (improveMarkdownWithGemini
\* throws), the run still delivers: the download is triggered and
\* addExtractedUrl is called; no run ends failed without a delivery.
C1_EnrichmentFailureStillDelivers ==
    (BgEnded /\ bg.enrich = "failed") =>
        /\ Has(bg.log, "download")
        /\ Has(bg.log, "record")
        /\ bg.result = "delivered"

\* C2: a call whose every attempt ends in HTTP 503 returns after exactly 8
\* fetches, with the 503 response, which the caller treats as a failure; no
\* 9th fetch is ever made and nothing waits after the 8th.
C2_AllOverloadedEndsAfterEight ==
    /\ bg.calls <= 8
    /\ (bg.pc = "wait" => bg.calls < 8)
    /\ (bg.seen = {"503"} /\ bg.pc # "wait" /\ bg.pc # "fetch") =>
          /\ bg.calls = 8
          /\ bg.ret = "503"
          /\ bg.pc = "errtext"

C2_Witness ==
    bg.seen = {"503"} /\ bg.ret = "503" /\ bg.calls = 8 /\ bg.waits = 7

C5_WaitsGrowAndAreBounded ==
    [][/\ bg'.waits <= 7
       /\ (bg.pc = "fetch" /\ bg'.pc = "wait") =>
             /\ bg.attempt \in 0..6
             /\ bg'.waits = bg.attempt + 1
             /\ bg'.delay >= 2 * (2 ^ bg.attempt) * 1000
             /\ bg'.delay < (2 * (2 ^ bg.attempt) + 1) * 1000
             /\ (bg.waits >= 1 => bg'.delay > bg.delay)
       /\ (bg.pc = "fetch" /\ bg.attempt = 7 /\ bg' # bg) =>
             bg'.pc # "wait"]_vars

C5_Witness ==
    bg.pc = "wait" /\ bg.waits = 7 /\ bg.delay = 128999

\* the (url, lastExtracted) pairs of a list
Stamps(urls) == {<<urls[i].url, urls[i].lastExtracted>> : i \in 1..Len(urls)}

\* C6: the 101st sequential record of 101 distinct URLs leaves exactly 100
\* entries, all of different URLs: the 101 candidates less one, and the one
\* left out has a lastExtracted no later than any that stays.
C6_OverflowEvictsOldest ==
    [][recorded' = 101 =>
         LET cand == Stamps(extractedUrls) \cup {<<101, now'>>}
             kept == Stamps(extractedUrls')
         IN  /\ Len(extractedUrls') = 100
             /\ Cardinality({s[1] : s \in kept}) = 100
             /\ kept \subseteq cand
             /\ Cardinality(cand \ kept) = 1
             /\ \A x \in cand \ kept : \A y \in kept : x[2] <= y[2]]_vars

\* the 101st record is done, the clock advanced between all records, and
\* the oldest URL is the one that left
C6_Witness ==
    /\ recorded = 101
    /\ now = 101
    /\ Len(extractedUrls) = 100
    /\ \A i \in 1..Len(extractedUrls) : extractedUrls[i].url # 1

\* context c writes the history in this step
Writes(c, d) == c.pc = "recWrite" /\ d.pc = "recSet"

\* what the update-or-push block owes: after is urls with the entry of url
\* bumped in place, or with a fresh entry appended when url was absent
UpsertContract(urls, url, t, after) ==
    IF \E i \in 1..Len(urls) : urls[i].url = url
    THEN /\ Len(after) = Len(urls)
         /\ \A i \in 1..Len(urls) :
               IF urls[i].url = url
               THEN /\ after[i].url = url
                    /\ after[i].count = urls[i].count + 1
                    /\ after[i].lastExtracted = t
                    /\ after[i].firstExtracted = urls[i].firstExtracted
               ELSE after[i] = urls[i]
    ELSE /\ Len(after) = Len(urls) + 1
         /\ \A i \in 1..Len(urls) : after[i] = urls[i]
         /\ after[Len(after)] = [url |-> url, firstExtracted |-> t,
                                  lastExtracted |-> t, count |-> 1]

\* the contract for a sequential call of context c: the list it read is the
\* list stored; the list the block produces is what gets stored whenever it
\* fits the 100 entries
SequentialUpsert(c, d) ==
    (Writes(c, d) /\ c.urls = extractedUrls) =>
        LET after == Upsert(c.urls, c.url, now)
        IN  /\ UpsertContract(extractedUrls, c.url, now, after)
            /\ Len(after) <= 100 => extractedUrls' = after

\* the second of two sequential records of one URL from the empty history,
\* written by context c in this step
SecondOfTwo(c, d) ==
    (/\ Writes(c, d)
     /\ recorded = 1
     /\ c.urls = extractedUrls
     /\ Len(extractedUrls) = 1
     /\ c.url = extractedUrls[1].url) =>
        /\ Len(extractedUrls') = 1
        /\ extractedUrls'[1].url = c.url
        /\ extractedUrls'[1].count = 2
        /\ extractedUrls'[1].lastExtracted = now

\* C7: a sequential record of a stored URL bumps that entry in place (count
\* plus one, lastExtracted now) and adds no entry; a sequential record of an
\* absent URL adds one entry with count 1. So two sequential records of one
\* URL from the empty history leave one entry with count 2.
C7_RecordUpserts ==
    [][/\ SequentialUpsert(popup, popup')
       /\ SequentialUpsert(bg, bg')
       /\ SecondOfTwo(popup, popup')
       /\ SecondOfTwo(bg, bg')]_vars

\* one URL recorded twice, one call after the other, from the empty history
C7_Witness ==
    /\ recorded = 2
    /\ Len(extractedUrls) = 1
    /\ extractedUrls[1].count = 2
    /\ extractedUrls[1].firstExtracted < extractedUrls[1].lastExtracted

\* C8: no two entries of the stored history have the same url: there are as
\* many different urls as entries.
C8_UrlsUnique ==
    Cardinality({extractedUrls[i].url : i \in 1..Len(extractedUrls)})
        = Len(extractedUrls)

\* popup and background both read the full history, then both recorded the
\* same new URL, while the options page holds a list it read for keepLast100
C8_Witness ==
    /\ popup.pc = "recSet"
    /\ bg.pc = "recSet"
    /\ recorded = 2
    /\ options.pc = "trim"
    /\ Len(extractedUrls) = 100
    /\ \E i \in 1..Len(extractedUrls) : extractedUrls[i].url = 101

\* C9: the stored history never has more than 100 entries.
C9_AtMostHundred == Len(extractedUrls) <= 100

\* a record of a new URL into the full history has been written
C9_Witness ==
    /\ recorded >= 1
    /\ Len(extractedUrls) = 100
    /\ \E i \in 1..Len(extractedUrls) : extractedUrls[i].url = 101
    /\ \A i \in 1..Len(extractedUrls) : extractedUrls[i].url # 1

\* in a run's log: addExtractedUrl is called at most once, only after the
\* download was triggered, and once the download is triggered it is called
RecordFollowsDownload(log) ==
    /\ Count(log, "download") <= 1
    /\ Count(log, "record") <= 1
    /\ Has(log, "record") =>
          (Has(log, "download") /\ First(log, "download") < First(log, "record"))
    /\ Has(log, "download") => Has(log, "record")

\* C10: on the popup's direct path and on the background path,
\* addExtractedUrl is called only after the download of the run was
\* triggered, and a run that delivers calls it exactly once.
C10_RecordOnlyAfterDownload ==
    /\ RecordFollowsDownload(popup.log)
    /\ RecordFollowsDownload(bg.log)
    /\ popup.pc \in {"recRead", "recWrite", "recSet", "timer"} =>
          Count(popup.log, "record") = 1
    /\ bg.pc \in {"recRead", "recWrite", "recSet"} \/ bg.result = "delivered" =>
          Count(bg.log, "record") = 1

\* a direct run of the popup has delivered and recorded, after a background
\* run did
C10_Witness ==
    /\ popup.pc = "timer"
    /\ bg.result = "delivered"
    /\ recorded = 2

DirectPcs == {"recRead", "recWrite", "recSet", "timer"}

\* C12: at the step that reads the configuration, the run hands off to the
\* background exactly when the flag is on and a key is stored, and the
\* request carries the key and model as read; from then on, whatever is
\* saved on the options page, the run stays on its branch, a request in
\* flight is not altered, and the background keeps the key and model of the
\* request it took until that run ends.
C12_BranchAndKeyFixedAtRead ==
    [][/\ (popup.pc = "config" /\ popup'.pc \notin {"config", "closed"}) =>
             \* the read or the delivery threw
             \/ /\ popup'.pc = "idle"
                /\ popup'.status[1] = "Error: "
                /\ toBackground' = toBackground
             \/ IF config.useGemini /\ config.geminiApiKey # ""
                THEN /\ popup'.pc = "listening"
                     /\ toBackground' = Append(toBackground,
                           [url |-> popup.url, apiKey |-> config.geminiApiKey,
                            model |-> IF config.geminiModel = ""
                                      THEN "gemini-2.5-pro"
                                      ELSE config.geminiModel])
                ELSE /\ popup'.pc = "recRead"
                     /\ toBackground' = toBackground
       /\ popup.pc # "config" =>
             \/ toBackground' = toBackground
             \/ /\ toBackground # <<>>
                /\ toBackground' = Tail(toBackground)
       /\ popup.pc = "listening" =>
             popup'.pc \in {"listening", "idle", "closed"}
       /\ popup.pc \in DirectPcs =>
             popup'.pc \in DirectPcs \cup {"idle", "closed"}
       /\ (bg.pc = "idle" /\ bg'.pc # "idle") =>
             /\ toBackground # <<>>
             /\ bg'.apiKey = Head(toBackground).apiKey
             /\ bg'.model = Head(toBackground).model
             /\ bg'.url = Head(toBackground).url
       /\ (bg.pc # "idle" /\ bg'.pc # "idle") =>
             /\ bg'.apiKey = bg.apiKey
             /\ bg'.model = bg.model
             /\ bg'.url = bg.url]_vars

\* the background is retrying with the key and model of its request while
\* the options now say: enrichment off, no key, no model
C12_Witness ==
    /\ bg.pc = "fetch"
    /\ bg.attempt >= 1
    /\ bg.apiKey = "key"
    /\ bg.model = "gemini-2.5-flash"
    /\ config = [useGemini |-> FALSE, geminiApiKey |-> "", geminiModel |-> ""]
    /\ popup.pc = "listening"

\* a tab the extension cannot work on: a chrome:// or about: page, or a tab
\* without a numeric id
InvalidTarget(tab) == tab.internal \/ tab.id # "number"

\* the popup's run ends in this step in the catch block, having done nothing
\* since the state before the step
FailsHere ==
    /\ popup'.pc = "idle"
    /\ popup'.status[1] = "Error: "
    /\ popup'.log = popup.log
    /\ toBackground' = toBackground
    /\ extractedUrls' = extractedUrls
    /\ recorded' = recorded

\* C13: when tabs.query answers with an internal page or a tab without a
\* numeric id, the run fails at that step: executeScript is not called,
\* nothing is converted, handed off, downloaded or recorded.
C13_InvalidTargetFails ==
    [][(/\ popup.pc = "query"
        /\ InvalidTarget(popup.tab)
        /\ popup'.pc \notin {"query", "closed"}) =>
          /\ FailsHere
          /\ popup'.log = <<>>
          /\ popup'.status[2] \in
                {"Cannot extract content from browser-internal pages.",
                 "Could not find active tab.", "Invalid tab ID received"}]_vars

\* a run has failed on an internal page with nothing done
C13_Witness ==
    /\ popup.pc = "idle"
    /\ popup.status = <<"Error: ",
                        "Cannot extract content from browser-internal pages.">>
    /\ popup.log = <<>>
    /\ ~popup.disabled
    /\ clicks = 1
    /\ extractedUrls = <<>>
    /\ toBackground = <<>>
    /\ bg = BgIdle

\* C14: when executeScript answers with no result or with empty html, the
\* run fails at that step, before anything is converted: no conversion, no
\* handoff, no download, no record.
C14_NoMarkupFails ==
    [][(/\ popup.pc = "script"
        /\ popup.res \in {"nohtml", "noresult"}
        /\ popup'.pc \notin {"script", "closed"}) =>
          /\ FailsHere
          /\ popup'.log = <<"script">>
          /\ popup'.status[2] = "Could not extract content from the page."]_vars

\* a run has failed on a page without markup, the extractor invoked and
\* nothing else done
C14_Witness ==
    /\ popup.pc = "idle"
    /\ popup.status = <<"Error: ", "Could not extract content from the page.">>
    /\ popup.log = <<"script">>
    /\ clicks = 1
    /\ extractedUrls = <<>>
    /\ toBackground = <<>>
    /\ bg = BgIdle

\* the places of the click handler inside its try block
TryPcs == {"query", "script", "config", "recRead", "recWrite"}

C17_ClosedPopupLosesNoWork ==
    /\ [][/\ (popup.pc # "closed" /\ popup'.pc = "closed") =>
                /\ toBackground' = toBackground
                /\ bg' = bg
                /\ extractedUrls' = extractedUrls
                /\ toPopup' = toPopup
          /\ bg' # bg => popup' = popup
          /\ (Len(toPopup') < Len(toPopup) /\ popup.pc # "listening") =>
                /\ bg' = bg
                /\ extractedUrls' = extractedUrls
                /\ recorded' = recorded
                /\ toBackground' = toBackground
                /\ popup' = popup]_vars
    /\ (toBackground # <<>> \/ bg.pc # "idle")
          ~> (toBackground = <<>> /\ bg.pc = "idle" /\ bg.result # "none")

\* the popup is closed and the background has enriched, triggered the
\* download and written the history of the one run there was
C17_Witness ==
    /\ popup.pc = "closed"
    /\ clicks = 1
    /\ bg.pc = "recSet"
    /\ bg.log = <<"download", "record">>
    /\ recorded = 1
    /\ Len(extractedUrls) = 1
    /\ extractedUrls[1].url = bg.url

\* the events a step of the background added to its log
Logged(b0, b1) ==
    IF b0.pc = "idle" THEN b1.log
    ELSE SubSeq(b1.log, Len(b0.log) + 1, Len(b1.log))

\* C18: the step that ends a run of the background shows one notification
\* and sends one processingComplete message: success with the filename
\* when the download was triggered and the history written, failure with
\* the error otherwise. No other step notifies or signals, and the
\* background starts a run only by taking a request: it never runs one
\* again.
C18_OneNotificationOneSignal ==
    [][/\ (bg' # bg /\ bg'.pc = "idle") =>
             IF bg.pc = "recSet"
             THEN /\ Has(bg.log, "download")
                  /\ Logged(bg, bg') = <<"notifyDone", "signalDone">>
                  /\ toPopup' = Append(toPopup,
                         [success |-> TRUE, filename |-> bg.url])
             ELSE /\ Logged(bg, bg') = <<"notifyFailed", "signalFailed">>
                  /\ toPopup' = Append(toPopup,
                         [success |-> FALSE, error |-> "exception"])
       /\ (bg' # bg /\ bg'.pc = "idle") =>
             /\ Count(bg'.log, "notifyDone") + Count(bg'.log, "notifyFailed") = 1
             /\ Count(bg'.log, "signalDone") + Count(bg'.log, "signalFailed") = 1
       /\ bg'.pc # "idle" =>
             /\ Len(toPopup') <= Len(toPopup)
             /\ \A e \in {"notifyDone", "notifyFailed", "signalDone",
                           "signalFailed"} : ~Has(bg'.log, e)
       /\ (bg.pc = "idle" /\ bg' # bg) =>
             /\ toBackground # <<>>
             /\ toBackground' = Tail(toBackground)
       /\ bg' = bg => Len(toBackground') >= Len(toBackground)]_vars

\* a run has ended in success: its notification shown, its signal with the
\* filename on its way
C18_Witness ==
    /\ BgEnded
    /\ bg.log = <<"download", "record", "notifyDone", "signalDone">>
    /\ toPopup = <<[success |-> TRUE, filename |-> 2]>>

\* the stage of the pipeline a place of the popup's handler is in:
\* 0 Idle, 1 Extracting, 2 Converting, 3 Enriching, 5 Delivering
PopupStage(pc) ==
    CASE pc \in {"closed", "idle"} -> 0
      [] pc \in {"query", "script"} -> 1
      [] pc = "config" -> 2
      [] pc = "listening" -> 3
      [] pc \in {"recRead", "recWrite", "recSet", "timer"} -> 5

\* the stage a place of the background's run is in: 0 Idle, 3 Enriching,
\* 5 Synthesizing and Delivering
BgStage(pc) ==
    CASE pc = "idle" -> 0
      [] pc \in {"fetch", "wait", "json", "errtext"} -> 3
      [] pc \in {"recRead", "recWrite", "recSet"} -> 5

\* the stages that may follow a stage, Idle (and Failed, which is Idle with
\* the failure shown) apart
Follows(stage) ==
    CASE stage = 0 -> {0, 1}
      [] stage = 1 -> {1, 2}
      [] stage = 2 -> {2, 3, 5}
      [] stage = 3 -> {3, 5}
      [] stage = 5 -> {5}

\* the same for the background, whose run starts at Enriching
BgFollows(stage) == IF stage = 0 THEN {0, 3} ELSE Follows(stage)

\* C19: a run goes through Extracting, Converting, Enriching when enabled,
\* Synthesizing and Delivering in that order and back to Idle, or leaves
\* the order for Failed. The enrichment of a run starts in the background
\* from the request that the popup queued after converting. A download is
\* triggered at most once in a run, and only after extraction and
\* conversion.
C19_StagesInOrder ==
    [][/\ popup'.pc # "closed" =>
             \/ PopupStage(popup'.pc) \in Follows(PopupStage(popup.pc))
             \/ /\ popup'.pc = "idle"
                /\ \/ popup.pc = "timer"
                   \/ popup.pc = "listening"
                   \/ popup'.status[1] = "Error: "
       /\ \/ BgStage(bg'.pc) \in BgFollows(BgStage(bg.pc))
          \/ /\ bg'.pc = "idle"
             /\ bg'.result = IF bg.pc = "recSet" THEN "delivered" ELSE "failed"
       /\ (BgStage(bg.pc) = 0 /\ BgStage(bg'.pc) = 3) =>
             /\ toBackground # <<>>
             /\ toBackground' = Tail(toBackground)
       /\ Len(toBackground') > Len(toBackground) =>
             /\ popup.pc = "config"
             /\ popup'.pc = "listening"
             /\ popup.log = <<"script", "converted">>
       /\ Count(popup'.log, "download") <= 1
       /\ Count(bg'.log, "download") <= 1
       /\ Has(popup'.log, "download") =>
             /\ SubSeq(popup'.log, 1, 3) = <<"script", "converted", "download">>
             /\ PopupStage(popup'.pc) \in {0, 5}
       /\ Has(bg'.log, "download") => BgStage(bg'.pc) \in {0, 5}]_vars

\* a direct run at the end of Delivering, after a run that went through
\* the background
C19_Witness ==
    /\ popup.pc = "timer"
    /\ popup.log = <<"script", "converted", "download", "record", "done">>
    /\ bg.result = "delivered"
    /\ bg.log = <<"download", "record", "notifyDone", "signalDone">>

\* is url stored in urls
Stored(urls, url) == \E i \in 1..Len(urls) : urls[i].url = url

\* the write of context c in this step stores the list c computed from what
\* it read, whatever is stored now; when what it read is what is stored
\* and nothing has to be evicted, its own entry is stored and every entry
\* stored before still is, with a count no smaller
LastWriter(c, d) ==
    Writes(c, d) =>
        /\ extractedUrls' = Truncate(Upsert(c.urls, c.url, now), 100)
        /\ (c.urls = extractedUrls /\ Len(extractedUrls) < 100) =>
              /\ Stored(extractedUrls', c.url)
              /\ \A i \in 1..Len(extractedUrls) :
                    \E j \in 1..Len(extractedUrls') :
                       /\ extractedUrls'[j].url = extractedUrls[i].url
                       /\ extractedUrls'[j].count >= extractedUrls[i].count
                       /\ extractedUrls'[j].firstExtracted =
                             extractedUrls[i].firstExtracted

\* C20: the history is read, changed and written back without a lock, and
\* the last write wins: each write stores the list its own call computed
\* from its own read, so what another call wrote in between is lost; a
\* call that reads what is stored and writes before anything else does
\* loses nothing.
C20_LastWriterWins ==
    [][/\ LastWriter(popup, popup')
       /\ LastWriter(bg, bg')]_vars

\* from the history of 99 entries, one call recorded the stored URL 1 and
\* another the new URL 101, both reading before either wrote: the new
\* URL's write came last, and the count of URL 1 is 1 again
C20_Witness ==
    /\ recorded = 2
    /\ popup.pc = "recSet"
    /\ bg.pc = "recSet"
    /\ Len(extractedUrls) = 100
    /\ \E i \in 1..100 :
          /\ extractedUrls[i].url = 1
          /\ extractedUrls[i].count = 1
          /\ extractedUrls[i].firstExtracted = 2 - maxUrls
    /\ \E i \in 1..100 :
          /\ extractedUrls[i].url = 101
          /\ extractedUrls[i].count = 1

\* C21: a request with an empty API key fails at the step that takes it:
\* the enrichment is marked failed and the failure reported before any
\* fetch, so the run has made no remote call and never waits to retry.
C21_NoKeyFailsBeforeAnyCall ==
    [][(bg.pc = "idle" /\ bg' # bg /\ Head(toBackground).apiKey = "") =>
          /\ bg'.pc = "idle"
          /\ bg'.enrich = "failed"
          /\ bg'.result = "failed"
          /\ bg'.calls = 0
          /\ bg'.waits = 0
          /\ bg'.log = <<"notifyFailed", "signalFailed">>
          /\ toPopup' = Append(toPopup, [success |-> FALSE,
                                         error |-> "exception"])]_vars

\* the request without a key has been taken and has failed
C21_Witness ==
    /\ toBackground = <<>>
    /\ bg.pc = "idle"
    /\ bg.enrich = "failed"
    /\ bg.calls = 0
    /\ bg.seen = {}
    /\ bg.log = <<"notifyFailed", "signalFailed">>

\* the categories in the declared order, and the closed set of results
CategoryOrder ==
    <<"architecture", "testing", "security", "performance", "database",
      "devops", "frontend", "backend", "mobile", "ai_ml", "programming">>
Categories == {CategoryOrder[i] : i \in 1..11} \cup {"general"}

\* has category i a keyword that occurs in the lower-cased title or URL
Matches(i, title, url) ==
    LET titleLower == toLowerCase(title)
        urlLower   == toLowerCase(url)
    IN  \E j \in 1..Len(patterns[i].keywords) :
           \/ includes(titleLower, patterns[i].keywords[j])
           \/ includes(urlLower, patterns[i].keywords[j])

\* C22: the category computed is a member of the closed set; it is the
\* first category of the declared order with a keyword occurring in the
\* lower-cased title or URL, and general when no category has one; the
\* title "Building Microservice Architecture with Docker" is architecture.
C22_FirstMatchingCategory ==
    popup.pc = "config" =>
        LET title == popup.pageContent.title
            hits  == {i \in 1..11 : Matches(i, title, popup.url)}
        IN  /\ popup.category \in Categories
            /\ \A i \in 1..11 : patterns[i].category = CategoryOrder[i]
            /\ hits = {} <=> popup.category = "general"
            /\ \A i \in hits :
                  (\A k \in hits : i <= k) => popup.category = CategoryOrder[i]
            /\ title = "Building Microservice Architecture with Docker" =>
                  popup.category = "architecture"

\* the title of the example, whose keywords microservice and architecture
\* come before docker, with the URL of the example
C22_Witness ==
    /\ popup.pc = "config"
    /\ popup.pageContent.title = "Building Microservice Architecture with Docker"
    /\ popup.url = "https://x.test/a"
    /\ popup.category = "architecture"
    /\ Matches(6, popup.pageContent.title, popup.url)

\* the characters a safe title is made of
SafeLower == LowerCase \o Digits \o "_.-"

\* the safe title the claim describes for a title
SafeTitleOf(title, safe) ==
    IF title = "" THEN safe = "document"
    ELSE /\ Len(safe) = Len(title)
         /\ \A i \in 1..Len(title) :
               /\ PlaceIn(SafeLower, charAt(safe, i)) > 0
               /\ charAt(safe, i) =
                     IF PlaceIn(SafeLower, lowerChar(charAt(title, i))) > 0
                     THEN lowerChar(charAt(title, i)) ELSE "_"

\* the rest of C23: the form of the name and the safe title, and the
\* current date when no publication date is usable
FilenameForm ==
    popup.pc = "config" =>
        LET f     == popup.filename
            title == popup.pageContent.title
            pub   == popup.pageContent.publicationDate
            n     == Len(popup.category)
            safe  == SubSeq(f, 13 + n, Len(f) - 3)
        IN  /\ f = SubSeq(f, 1, 10) \o "_" \o popup.category \o "_" \o safe
                   \o ".md"
            /\ SafeTitleOf(title, safe)
            /\ (pub = "" \/ ~newDate(pub).valid) =>
                  SubSeq(f, 1, 10) = localDate(popup.clock, popup.zone)
            /\ (title = "C++ Tips: Part #1!" /\ pub = ""
                  /\ localDate(popup.clock, popup.zone) = "2026-01-10"
                  /\ popup.category = "programming") =>
                  f = "2026-01-10_programming_c___tips__part__1_.md"

\* C23: the file name is {date}_{category}_{safeTitle}.md; the safe title
\* is as long as the title, made of [a-z0-9_.-], the lower-cased title with
\* every other character replaced by "_", and "document" for the empty
\* title; the date is the publication date when it is present and parses
\* (for a publication date given as a calendar day, that day), and the
\* current date otherwise.
C23_FilenameOfPage ==
    /\ FilenameForm
    /\ popup.pc = "config" =>
          LET pub == popup.pageContent.publicationDate
          IN  (pub # "" /\ newDate(pub).valid) =>
                 SubSeq(popup.filename, 1, 10) =
                    IF IsDateForm(pub) THEN pub
                    ELSE localDate(newDate(pub).time, popup.zone)

\* is s an ISO-8601 timestamp YYYY-MM-DDTHH:MM:SS.sssZ
IsIsoTimestamp(s) ==
    /\ Len(s) = 24
    /\ IsDateForm(SubSeq(s, 1, 10))
    /\ IsTimeForm(SubSeq(s, 11, 19) \o "Z")
    /\ SubSeq(s, 20, 24) = ".000Z"

\* the value of key in a front-matter: the text after "key: " of its
\* lines of that key
ValuesOf(frontMatter, key) ==
    {SubSeq(frontMatter[i], Len(key) + 3, Len(frontMatter[i])) :
       i \in {i \in 1..Len(frontMatter) :
                /\ Len(frontMatter[i]) >= Len(key) + 2
                /\ SubSeq(frontMatter[i], 1, Len(key) + 2) = key \o ": "}}

\* C24: for every page, one whose publicationDate is a non-empty string
\* that is not a date included, createMetadata returns, and the front-matter
\* has one date_published, an ISO-8601 timestamp or "unknown".
C24_DatePublishedIsoOrUnknown ==
    bg.pc # "render" =>
        /\ bg.pc = "rendered"
        /\ \E v \in ValuesOf(bg.frontMatter, "date_published") :
              /\ ValuesOf(bg.frontMatter, "date_published") = {v}
              /\ v = "unknown" \/ IsIsoTimestamp(v)

\* the parse has returned its object
Returned == bg.pc = "returned"

\* C25: for every response, the object improveMarkdownWithGemini returns has
\* at most 10 tags and at most 8 key concepts.
C25_TagsAndConceptsCapped ==
    Returned =>
        /\ Len(bg.improved.tags) <= 10
        /\ Len(bg.improved.keyConcepts) <= 8

\* the four list fields of the returned object
ListFields == {"technologies", "programmingLanguages", "tags", "keyConcepts"}

\* the text has both headers around a metadata section
Structured(text) == metadataMatch(text) # <<"none">>

\* the lines of text that name the tags field
TagsLines(text) ==
    {text[i] : i \in {j \in 1..Len(text) :
                        includes(toLowerCase(LineText(text[j])), "tags")}}

\* C26: on both parse paths, no list field of the returned object holds an
\* empty item, an item with white space at either end, or an item that is
\* "none" in any letter case; a field whose only extracted item is "none" is
\* the empty list.
C26_ListItemsClean ==
    Returned =>
        /\ \A f \in ListFields : \A i \in 1..Len(bg.improved[f]) :
              LET x == bg.improved[f][i]
              IN  /\ x # ""
                  /\ ~IsWs(charAt(x, 1))
                  /\ ~IsWs(charAt(x, Len(x)))
                  /\ toLowerCase(x) # "none"
        /\ (TagsLines(bg.text) # {}
              /\ TagsLines(bg.text) \subseteq {"Tags: [None]", "tags: none"}) =>
                 bg.improved.tags = <<>>

\* on the fall-back path items were trimmed and "none" dropped, and a list
\* of "none" alone came out empty
C26_Witness ==
    /\ Returned
    /\ ~Structured(bg.text)
    /\ bg.text = <<"Key Concepts: caching , None", "Tags: [None]">>
    /\ bg.improved.keyConcepts = <<"caching">>
    /\ bg.improved.tags = <<>>

\* the labels of the fall-back patterns, by field
FallbackLabels ==
    [technologies         |-> FallbackLabel("technologie", FALSE, ""),
     programmingLanguages |-> FallbackLabel("programming", TRUE, "language"),
     tags                 |-> FallbackLabel("tag", FALSE, ""),
     keyConcepts          |-> FallbackLabel("key", TRUE, "concept")]

\* the list one pattern of the fall-back parse yields on the full text
Yield(text, f, kind) ==
    LET m == match(Text(text, 1), FallbackLabels[f], kind)
    IN  IF Usable(m) THEN fallbackItems(m) ELSE <<>>

\* C27: when the response lacks the "## Metadata ... ## Content" structure,
\* each of the four list fields is searched for in the full text on its own:
\* the field is what the bracketed-list pattern yields when that is not
\* empty, and what the bare-line pattern yields otherwise; the bare line
\* "Tags: api, security" gives the tags api and security, and a bracketed
\* tags line wins over a bare one before it.
C27_FallbackBracketThenBare ==
    (Returned /\ ~Structured(bg.text)) =>
        /\ \A f \in ListFields :
              bg.improved[f] = IF Yield(bg.text, f, "bracket") # <<>>
                               THEN Yield(bg.text, f, "bracket")
                               ELSE Yield(bg.text, f, "bare")
        /\ TagsLines(bg.text) = {"Tags: api, security"} =>
              bg.improved.tags = <<"api", "security">>
        /\ bg.text = <<"Tags: api, security", "Tags: [ api ,, none ]">> =>
              bg.improved.tags = <<"api">>

\* a bare tags line parsed next to a bracketed list of another field
C27_Witness ==
    /\ Returned
    /\ bg.text = <<"Tags: api, security", "Programming_Languages: [js, ts]">>
    /\ bg.improved.tags = <<"api", "security">>
    /\ bg.improved.programmingLanguages = <<"js", "ts">>

\* the lines of the metadata section of text, none when it has no such
\* section
MetadataLines(text) ==
    IF Structured(text)
    THEN {metadataMatch(text)[i] : i \in 1..Len(metadataMatch(text))}
    ELSE {}

\* the token line carries for label: the run of characters other than white
\* space after the label and the white space behind it, in lower case; ""
\* when the line does not start with the label
TokenAfter(line, label) ==
    LET t  == toLowerCase(LineText(line))
        w  == skipWs(t, Len(label) + 1)
        es == {e \in w..Len(t) : \A j \in w..e : ~IsWs(charAt(t, j))}
    IN  IF Len(t) >= Len(label) /\ SubSeq(t, 1, Len(label)) = label
           /\ es # {}
        THEN SubSeq(t, w, CHOOSE e \in es : \A j \in es : j <= e)
        ELSE ""

\* the tokens the metadata section of text carries for label
TokensFor(text, label) ==
    {TokenAfter(line, label) : line \in MetadataLines(text)} \ {""}

Levels == {"beginner", "intermediate", "advanced"}

\* C28: codeExamples of the returned object is true only when the metadata
\* section carries Code_Examples with the token yes, and false otherwise;
\* difficultyLevel is one of beginner, intermediate and advanced, and is
\* intermediate whenever the label is absent or carries another token.
C28_FlagAndLevelFromLiteralTokens ==
    Returned =>
        /\ bg.improved.codeExamples =>
              "yes" \in TokensFor(bg.text, "code_examples:")
        /\ bg.improved.difficultyLevel \in Levels
        /\ bg.improved.difficultyLevel # "intermediate" =>
              bg.improved.difficultyLevel
                 \in TokensFor(bg.text, "difficulty_level:")

\* what does hold of the flag and the level: each comes from a token of the
\* metadata section that starts with it, the flag is true when the section
\* carries the token yes, and both have their defaults on the fall-back path
FlagAndLevelByPrefix ==
    Returned =>
        LET StartsWith(tok, w) ==
                Len(tok) >= Len(w) /\ SubSeq(tok, 1, Len(w)) = w
            flags  == TokensFor(bg.text, "code_examples:")
            levels == TokensFor(bg.text, "difficulty_level:")
        IN  /\ bg.improved.codeExamples =>
                  \E tok \in flags : StartsWith(tok, "yes")
            /\ (flags # {} /\ flags \subseteq {"yes"}) =>
                  bg.improved.codeExamples
            /\ bg.improved.difficultyLevel \in Levels
            /\ bg.improved.difficultyLevel # "intermediate" =>
                  \E tok \in levels :
                     StartsWith(tok, bg.improved.difficultyLevel)
            /\ ~Structured(bg.text) =>
                  /\ ~bg.improved.codeExamples
                  /\ bg.improved.difficultyLevel = "intermediate"

\* createMetadata has returned the front-matter
Rendered == bg.pc = "rendered"

\* the characters after which a title or an author is quoted: colon, double
\* and single quote, |, >, braces, brackets, @, backtick, !, %, &, * and the
\* newline
QuotedFor ==
    {":", "\"", "'", "|", ">", "{", "}", "[", "]", "@", "~", "!", "%", "&",
     "*", "\n"}

\* s with every double quote that a backslash precedes put back bare
RECURSIVE Unescaped(_)
Unescaped(s) ==
    IF s = "" THEN ""
    ELSE IF Len(s) >= 2 /\ SubSeq(s, 1, 2) = "\\\""
    THEN "\"" \o Unescaped(SubSeq(s, 3, Len(s)))
    ELSE charAt(s, 1) \o Unescaped(SubSeq(s, 2, Len(s)))

\* emitted is value in double quotes, a backslash before every double quote
\* inside
QuotedAndEscaped(emitted, value) ==
    /\ Len(emitted) >= 2
    /\ charAt(emitted, 1) = "\""
    /\ charAt(emitted, Len(emitted)) = "\""
    /\ LET inner == SubSeq(emitted, 2, Len(emitted) - 1)
       IN  /\ \A i \in 1..Len(inner) :
                 charAt(inner, i) = "\"" =>
                    i > 1 /\ charAt(inner, i - 1) = "\\"
           /\ Unescaped(inner) = value

\* the line of the front-matter for key is value as escapeYaml is to emit it
EmittedAs(key, value) ==
    \E i \in 1..Len(bg.frontMatter) :
       LET line == bg.frontMatter[i]
           k    == Len(key) + 2
       IN  /\ Len(line) >= k
           /\ SubSeq(line, 1, k) = key \o ": "
           /\ LET emitted == SubSeq(line, k + 1, Len(line))
              IN  IF \E j \in 1..Len(value) : charAt(value, j) \in QuotedFor
                  THEN QuotedAndEscaped(emitted, value)
                  ELSE emitted = value

\* C29: in the rendered front-matter a non-empty title or author that holds
\* one of the special characters or a newline is emitted in double quotes
\* with a backslash before every double quote inside it, and one that holds
\* none of them is emitted unchanged and unquoted.
C29_TitleAndAuthorEscaped ==
    Rendered =>
        /\ bg.pageContent.title # "" =>
              EmittedAs("title", bg.pageContent.title)
        /\ bg.pageContent.author # "" =>
              EmittedAs("author", bg.pageContent.author)

\* a title with a colon and a quote rendered quoted and escaped, next to an
\* author rendered as it is
C29_Witness ==
    /\ Rendered
    /\ bg.pageContent.title = "a\"b: c"
    /\ Has(bg.frontMatter, "title: \"a\\\"b: c\"")
    /\ bg.pageContent.author = "Jane Doe"
    /\ Has(bg.frontMatter, "author: Jane Doe")

\* the front-matter keys of the list fields, with the field each renders
ListKeys ==
    [technologies |-> "technologies",
     programming_languages |-> "programmingLanguages",
     tags |-> "tags",
     key_concepts |-> "keyConcepts"]

\* the places of the lines of the front-matter that start with key and ": "
KeyLines(key) ==
    {i \in 1..Len(bg.frontMatter) :
       /\ Len(bg.frontMatter[i]) >= Len(key) + 2
       /\ SubSeq(bg.frontMatter[i], 1, Len(key) + 2) = key \o ": "}

\* the data has no value for field: no data, no such field, or an empty one
Missing(field) ==
    \/ field \notin DOMAIN bg.geminiData
    \/ Len(bg.geminiData[field]) = 0

\* C30: the front-matter has every enrichment key once: technologies,
\* programming_languages, tags, key_concepts, code_examples,
\* difficulty_level and summary. When no enrichment data is given or a
\* field is missing the lists render as [], code_examples as false and
\* difficulty_level as unknown; no key is left out or rendered as null.
C30_EnrichmentKeysAlwaysPresent ==
    Rendered =>
        /\ \A key \in DOMAIN ListKeys \cup {"code_examples",
                                             "difficulty_level", "summary"} :
              /\ Cardinality(KeyLines(key)) = 1
              /\ ValuesOf(bg.frontMatter, key)
                    \cap {"", "null", "undefined"} = {}
        /\ \A key \in DOMAIN ListKeys :
              /\ \A v \in ValuesOf(bg.frontMatter, key) :
                    charAt(v, 1) = "[" /\ charAt(v, Len(v)) = "]"
              /\ Missing(ListKeys[key]) =>
                    ValuesOf(bg.frontMatter, key) = {"[]"}
        /\ ValuesOf(bg.frontMatter, "code_examples") \subseteq {"true", "false"}
        /\ "codeExamples" \notin DOMAIN bg.geminiData =>
              ValuesOf(bg.frontMatter, "code_examples") = {"false"}
        /\ Missing("difficultyLevel") =>
              ValuesOf(bg.frontMatter, "difficulty_level") = {"unknown"}
        /\ ValuesOf(bg.frontMatter, "summary") = {"|"}

\* a front-matter rendered without enrichment data
C30_Witness ==
    /\ Rendered
    /\ bg.geminiData = NoData
    /\ Has(bg.frontMatter, "tags: []")
    /\ Has(bg.frontMatter, "code_examples: false")
    /\ Has(bg.frontMatter, "difficulty_level: unknown")

\* the places of the images of the page that are large enough and can be
\* loaded and read back
Samplable == {k \in 1..Len(popup.imgElements) : popup.imgElements[k] = "good"}

Produced ==
    <<firstTruthy(popup.page.metas, 1),
      jsonLdDate(popup.page.scripts, 1),
      elementDate(popup.page.elements),
      urlDate(popup.page.path, popup.zone)>> \o <<>>

\* C32: the publication date is what the first of the four strategies, in
\* the order meta tags, JSON-LD (datePublished before dateCreated, then the
\* items of @graph), date elements (only when the text parses), URL path,
\* that produces something produces; a strategy that fails (a script that is
\* not JSON, a text that is no date) does not block the later ones; the
\* field is null exactly when all four produce nothing.
C32_FirstProducingStrategy ==
    popup.pc = "extracted" =>
        LET produced  == Produced
            producing == {k \in 1..4 : produced[k] # ""}
            page      == popup.page
        IN  /\ producing # {} =>
                  popup.publicationDate =
                     produced[CHOOSE k \in producing :
                                \A j \in producing : k <= j]
            /\ popup.publicationDate = "" <=>
                  /\ \A k \in 1..8 : page.metas[k] = ""
                  /\ \A k \in 1..Len(page.scripts) :
                        scriptDate(page.scripts[k]) = ""
                  /\ \/ \A k \in 1..11 : page.elements[k] = ""
                     \/ ~newDate(firstTruthy(page.elements, 1)).valid
                  /\ ~urlDateMatch(page.path).found
            /\ (page.metas[1] = "" /\ page.metas[5] # "") =>
                  popup.publicationDate = page.metas[5]
            /\ (produced[1] = "" /\ Len(page.scripts) >= 1
                  /\ page.scripts[1].kind = "object"
                  /\ page.scripts[1].datePublished # "") =>
                  popup.publicationDate = page.scripts[1].datePublished

\* no meta date, a script that is not JSON and one whose @graph starts with
\* a null item, an element text that is no date: the date of the URL path
C32_Witness ==
    /\ popup.pc = "extracted"
    /\ \A k \in 1..8 : popup.page.metas[k] = ""
    /\ popup.page.scripts =
          <<Script("invalid", "", "", "none", <<>>),
            Script("object", "", "", "list",
                   <<NullItem, Item("graphPublished", "")>>)>>
    /\ popup.page.elements[1] = "last Tuesday"
    /\ popup.page.elements[4] = "2026-01-06T23:30:00Z"
    /\ popup.page.path = "/2026/01/05/post"
    /\ popup.zone = 0
    /\ popup.publicationDate = "2026-01-05T00:00:00.000Z"

\* C33: an improveWithGemini request is always answered, and exactly once:
\* with { improvedMarkdown: the parsed result } when the enrichment succeeds
\* and with { error: message } when it fails, for whatever reason.
C33_ImproveAnsweredOnce ==
    /\ [](/\ Len(toPopup) <= 1
          /\ bg.result = "none" => toPopup = <<>>
          /\ bg.result = "fulfilled" =>
                /\ bg.enrich = "ok"
                /\ toPopup = <<[improvedMarkdown |-> parseImproved(bg.text)]>>
          /\ bg.result = "rejected" =>
                /\ bg.enrich = "failed"
                /\ toPopup = <<[error |-> Thrown]>>)
    /\ <>(Len(toPopup) = 1)

\* a request that failed after the retries were used up was answered with
\* the error
C33_Witness ==
    /\ bg.result = "rejected"
    /\ bg.attempt = maxRetries - 1
    /\ bg.seen = {"503", "neterr"}
    /\ toPopup = <<[error |-> Thrown]>>

\* the entries of a history, as a set
Entries(urls) == {urls[i] : i \in 1..Len(urls)}

\* C34: trim(n) leaves the history unchanged when it has n or fewer entries
\* and otherwise keeps exactly n entries, those with the greatest
\* lastExtracted; clear() leaves the history empty; contains(url) is true
\* exactly when an entry with that url is stored: false for every url right
\* after clear(), true for a url right after a record of it.
C34_TrimClearContains ==
    [][popup' # popup =>
       /\ popup'.op = "trim" =>
             LET before == popup'.before
                 n      == popup'.n
             IN  /\ before = extractedUrls
                 /\ Len(before) <= n => extractedUrls' = before
                 /\ Len(before) > n =>
                       /\ Len(extractedUrls') = n
                       /\ Entries(extractedUrls') \subseteq Entries(before)
                       /\ \A k \in Entries(extractedUrls'),
                             d \in Entries(before) \ Entries(extractedUrls') :
                             k.lastExtracted >= d.lastExtracted
       /\ popup'.op = "clear" => extractedUrls' = <<>>
       /\ popup'.op = "contains" =>
             /\ extractedUrls' = extractedUrls
             /\ popup'.result <=>
                   popup'.url \in {e.url : e \in Entries(extractedUrls)}
             /\ popup.op = "clear" => ~popup'.result
             /\ (popup.op = "record" /\ popup.url = popup'.url) =>
                   popup'.result
      ]_vars

\* a history of three entries trimmed to the two extracted last
C34_Witness ==
    /\ popup.op = "trim"
    /\ popup.n = 2
    /\ Len(popup.before) = 3
    /\ popup.before[1].lastExtracted < popup.before[3].lastExtracted
    /\ Len(extractedUrls) = 2
    /\ popup.before[1] \notin Entries(extractedUrls)


\* the step records a url that is already stored
RecordsStored ==
    /\ popup' # popup
    /\ popup'.op = "record"
    /\ isUrlExtracted(extractedUrls, popup'.url)

C35_SuccessReturnsAtOnce ==
    [][/\ (bg.pc = "fetch" /\ bg'.last = "ok") =>
             /\ bg.attempt \in 0..(maxRetries - 1)
             /\ bg.seen \subseteq {"503", "neterr"}
             /\ bg'.ret = "ok"
             /\ bg'.pc = "json"
             /\ bg'.attempt = bg.attempt
             /\ bg'.calls = bg.attempt + 1
             /\ bg'.waits = bg.attempt
       /\ (bg.ret = "ok" /\ bg' # bg) =>
             /\ bg'.pc \notin {"fetch", "wait"}
             /\ bg'.calls = 0
             /\ bg'.waits = 0]_vars

\* the first success at the last attempt, after seven retried failures of
\* both kinds
C35_Witness ==
    /\ bg.ret = "ok"
    /\ bg.attempt = 7
    /\ bg.calls = 8
    /\ bg.waits = 7
    /\ bg.seen = {"503", "neterr", "ok"}


\* C36 (as claimed): right after a sequential record(url) completes, the
\* history holds an entry for url, also when the insert took the list over
\* 100 entries and one was evicted, and also when entries share one
\* lastExtracted.
C36_RecordedUrlIsStored ==
    recorded >= 1 => isUrlExtracted(extractedUrls, recorded)


\* C37 (as claimed): whenever the background reports a run as failed (the
\* 'Extraction Failed' notification and processingComplete with success
\* false), no save-as download was triggered in that run; a run whose
\* download was triggered is always reported as successful.
C37_FailedMeansNoDownload ==
    /\ (Has(bg.log, "notifyFailed") \/ Has(bg.log, "signalFailed")) =>
          ~Has(bg.log, "download")
    /\ (BgEnded /\ Has(bg.log, "download")) =>
          /\ bg.result = "delivered"
          /\ Has(bg.log, "signalDone")


\* the run this popup handed to the background is not over yet: requests
\* are served in the order they were sent and the popup has sent none
\* since, so a request waiting or being processed means the popup's own,
\* the last one sent, is still on its way or in progress
OwnRunInFlight ==
    /\ popup.pc # "closed"
    /\ Has(popup.log, "handoff")
    /\ (toBackground # <<>> \/ bg.pc # "idle")

\* C39 (as claimed): within one popup at most one run is in flight: the
\* extract control is disabled from the click until the run completes or
\* fails (on the enrichment path, until its processingComplete signal
\* arrives), so no second run can be started from that popup in between.
C39_OneRunPerPopup ==
    /\ popup.pc \in {"query", "script", "config", "recRead", "recWrite",
                     "recSet", "timer", "listening"} => popup.disabled
    /\ OwnRunInFlight => popup.disabled


\* C38: a run that fails before its download is triggered (invalid target,
\* extraction failure, any exception before the delivery) leaves the stored
\* history as it was: no step of the popup or of the background made while
\* its run has triggered no download changes the history.
C38_FailedRunKeepsHistory ==
    [][/\ (popup' # popup /\ ~Has(popup'.log, "download")) =>
             extractedUrls' = extractedUrls
       /\ (bg' # bg /\ ~Has(bg'.log, "download")) =>
             extractedUrls' = extractedUrls]_vars

\* with one page in the history, recorded once, a later run has failed in
\* the enrichment and the popup has been told so
C38_Witness ==
    /\ Len(extractedUrls) = 1
    /\ extractedUrls[1].count = 1
    /\ recorded = 1
    /\ clicks = 2
    /\ BgEnded
    /\ bg.result = "failed"
    /\ ~Has(bg.log, "download")
    /\ popup.pc = "idle"
    /\ popup.status = Status("Processing failed")

=============================================================================
